---------------------------- MODULE Spec2Model ----------------------------
(***************************************************************************)
(* A model of the calendar-mcp core: the calendar orchestrator             *)
(* (CalendarService), the availability engine (FreeBusyService), the       *)
(* conflict detector (ConflictService) and the cross-provider synchronizer *)
(* (SyncService).                                                          *)
(*                                                                         *)
(* Time is a whole number: of hours for the conflict detector, of ticks (a  *)
(* fixed fraction of a minute) for the availability engine, of minutes for *)
(* the events the synchronizer compares; a datetime string and the Luxon   *)
(* value parsed from it are the same number.  The providers' backends are  *)
(* environment: what a provider call returns, or that it throws, is chosen *)
(* in the initial state and never changes ("the calendars are unchanged"). *)
(***************************************************************************)
EXTENDS Integers, Sequences, FiniteSets, TLC

VARIABLES
    connected,   \* provider id -> BOOLEAN : isConnected() of each registered provider
    outcome,     \* provider id -> "ok" | "fail" : whether the provider's call throws
    listResp,    \* provider id -> sequence of events its listEvents returns
    fbResp,      \* provider id -> sequence of busy slots its getFreeBusy returns
    pc,          \* position of the operation in progress
    params,      \* parameters of the operation in progress
    cursor,      \* findAlternativeSlot: the loop's cursor
    busySlots,   \* findAlternativeSlot: the sorted busy times
    iterations,  \* findAlternativeSlot: iterations of the while loop so far
    calls,       \* provider id -> state of the call issued by a fan-out
    result       \* what the operation returned

vars == <<connected, outcome, listResp, fbResp, pc, params, cursor, busySlots,
          iterations, calls, result>>

None == "none"

-----------------------------------------------------------------------------
(* Bounds of the model *)

\* event and slot boundaries are drawn from 0..MaxTick
MaxTick == 3

-----------------------------------------------------------------------------
(* The provider registry *)

\* registration order of the provider instances (Map insertion order)
ProviderOrder == <<"google-1", "microsoft-1">>

Providers == {ProviderOrder[i] : i \in 1..Len(ProviderOrder)}

providerType(p) ==
    IF p = "google-1" THEN "google"
    ELSE IF p = "microsoft-1" THEN "microsoft" ELSE "exchange"

\* the order in which loadProviders lists the accounts that may be configured:
\* Google, Microsoft, Exchange, then the additional Exchange accounts
RegistrationOrder == <<"google-1", "microsoft-1", "exchange-1", "exchange-2">>

ProviderTypes == {"google", "microsoft", "exchange"}

RECURSIVE SelectIds(_, _)
SelectIds(ids, keep) ==
    IF ids = <<>> THEN <<>>
    ELSE IF Head(ids) \in keep THEN <<Head(ids)>> \o SelectIds(Tail(ids), keep)
         ELSE SelectIds(Tail(ids), keep)

\* ProviderRegistry.getConnected; the registered providers are those connected
\* is defined on
getConnected == SelectIds(RegistrationOrder, {p \in DOMAIN connected : connected[p]})

-----------------------------------------------------------------------------
(* Time-interval utilities *)

\* rangesOverlap(start1, end1, start2, end2)
rangesOverlap(s1, e1, s2, e2) == s1 < e2 /\ e1 > s2

\* Array.prototype.sort with the comparator a.start - b.start: a stable sort
InsertByStart(sorted, x) ==
    LET k == Cardinality({i \in 1..Len(sorted) : sorted[i].start <= x.start})
    IN  SubSeq(sorted, 1, k) \o <<x>> \o SubSeq(sorted, k + 1, Len(sorted))

RECURSIVE SortByStart(_)
SortByStart(s) ==
    IF Len(s) <= 1 THEN s
    ELSE InsertByStart(SortByStart(SubSeq(s, 1, Len(s) - 1)), s[Len(s)])

RECURSIVE Concat(_, _)
\* the concatenation of f[ids[1]], f[ids[2]], ...
Concat(ids, f) ==
    IF ids = <<>> THEN <<>> ELSE f[Head(ids)] \o Concat(Tail(ids), f)

Range(s) == {s[i] : i \in 1..Len(s)}

-----------------------------------------------------------------------------
(* Calendar orchestrator: CalendarService *)

\* the providers a fan-out queries: the connected ones, of the given types if
\* a non-empty filter is given
targetProviders(types) ==
    IF types # {}
    THEN SelectIds(getConnected, {p \in DOMAIN connected : providerType(p) \in types})
    ELSE getConnected

\* the ProviderError pushed for a rejected call
providerError(p) == [provider |-> providerType(p), providerId |-> p]

\* the results of Promise.allSettled that are fulfilled / rejected, in order
fulfilledOf(ids) == SelectIds(ids, {p \in DOMAIN outcome : outcome[p] = "ok"})
rejectedOf(ids) == SelectIds(ids, {p \in DOMAIN outcome : outcome[p] = "fail"})

\* partialSuccess of a ListEventsResult
partialSuccessFlag(errors, events) == Len(errors) > 0 /\ Len(events) > 0

\* CalendarService.listAllEvents; maxResults = 0 stands for "not given",
\* errors = <<>> for "undefined"; an optional value is a sequence of length 0 or 1
listAllEvents(types, maxResults) ==
    LET providers == targetProviders(types)
    IN  IF providers = <<>>
        THEN [events |-> <<>>, errors |-> <<>>, partialSuccess |-> FALSE]
        ELSE LET rejected == rejectedOf(providers)
                 events == SortByStart(Concat(fulfilledOf(providers), listResp))
                 errors == [i \in 1..Len(rejected) |-> providerError(rejected[i])]
                 limited == IF maxResults > 0 /\ maxResults < Len(events)
                            THEN SubSeq(events, 1, maxResults)
                            ELSE events
             IN  [events |-> limited,
                  errors |-> errors,
                  partialSuccess |-> partialSuccessFlag(errors, events)]

-----------------------------------------------------------------------------
(* Conflict detector: ConflictService *)

\* bufferMinutes, in minutes
bufferMinutes == 60

\* the search horizon of findAlternativeSlot, in days
searchDays == 7

queryStart(prm) == prm.startTime - (bufferMinutes \div 60)
queryEnd(prm) == prm.endTime + (bufferMinutes \div 60)

\* mutant: the excluded event is recognised by its id alone
isExcludedByIdOnly(event, prm) ==
    prm.excludeEventId # None /\ event.id = prm.excludeEventId

\* the first test of the conflicts filter: the event excluded for rescheduling
isExcluded(event, prm) ==
    /\ prm.excludeEventId # None
    /\ event.id = prm.excludeEventId
    /\ (prm.excludeProvider = None \/ event.provider = prm.excludeProvider)

\* the predicate of events.filter(...) in checkConflicts
isConflict(event, prm) ==
    IF isExcluded(event, prm) THEN FALSE
    ELSE IF event.showAs = "free" THEN FALSE
    ELSE rangesOverlap(prm.startTime, prm.endTime, event.start, event.end)

\* an entry of ConflictCheckResult.conflicts
conflictEntry(event) ==
    [id |-> event.id, provider |-> event.provider, start |-> event.start,
     end |-> event.end, showAs |-> event.showAs]

detectConflicts(events, prm) ==
    LET hit == SelectSeq(events, LAMBDA e : isConflict(e, prm))
    IN  [i \in 1..Len(hit) |-> conflictEntry(hit[i])]

\* mutant: free events are kept among the busy times
busyTimesKeepFree(existingEvents) ==
    SortByStart([i \in 1..Len(existingEvents) |->
                    [start |-> existingEvents[i].start, end |-> existingEvents[i].end]])

\* the busy times findAlternativeSlot walks: non-free events, sorted by start
busyTimes(existingEvents) ==
    LET kept == SelectSeq(existingEvents, LAMBDA e : e.showAs # "free")
    IN  SortByStart([i \in 1..Len(kept) |->
                        [start |-> kept[i].start, end |-> kept[i].end]])

searchEnd(prm) == prm.startTime + searchDays * 24

duration(prm) == prm.endTime - prm.startTime

\* mutant: a busy time that ends after the cursor is in the way wherever it starts
firstOverlapEndOnly(slots, cur, slotEnd) ==
    LET hits == {i \in 1..Len(slots) : cur < slots[i].end}
    IN  IF hits = {} THEN 0 ELSE CHOOSE i \in hits : \A j \in hits : i <= j

\* mutant: the overlap test takes the busy time as closed at its end
firstOverlapClosed(slots, cur, slotEnd) ==
    LET hits == {i \in 1..Len(slots) : cur <= slots[i].end /\ slotEnd > slots[i].start}
    IN  IF hits = {} THEN 0 ELSE CHOOSE i \in hits : \A j \in hits : i <= j

\* the for loop over busySlots: the index of the first busy time the window
\* [cur, cur + duration) overlaps, 0 when there is none
firstOverlap(slots, cur, slotEnd) ==
    LET hits == {i \in 1..Len(slots) : cur < slots[i].end /\ slotEnd > slots[i].start}
    IN  IF hits = {} THEN 0 ELSE CHOOSE i \in hits : \A j \in hits : i <= j

\* the cursor after an iteration that found busySlots[k] in the way, with the
\* progress guard applied
cursorAfter(slots, k, prm) ==
    LET moved == slots[k].end
    IN  IF moved <= prm.startTime THEN prm.endTime ELSE moved

suggestionReason(cur, prm) ==
    IF cur \div 24 = prm.startTime \div 24 THEN "today" ELSE "dated"

\* checkConflicts up to the call of findAlternativeSlot
CheckConflicts(prm) ==
    /\ pc = "idle"
    /\ LET events == listAllEvents({}, 0).events
           conflicts == detectConflicts(events, prm)
       IN  /\ params' = prm
           /\ result' = [status |-> "ok",
                         hasConflict |-> Len(conflicts) > 0,
                         conflicts |-> conflicts,
                         suggestion |-> <<>>]
           /\ IF Len(conflicts) > 0
              THEN /\ pc' = "search"
                   /\ cursor' = prm.startTime
                   /\ busySlots' = busyTimes(events)
              ELSE /\ pc' = "done"
                   /\ UNCHANGED <<cursor, busySlots>>
    /\ UNCHANGED <<connected, outcome, listResp, fbResp, iterations, calls>>

\* one iteration of the while loop that finds a busy time in the way
AltJump ==
    /\ pc = "search"
    /\ cursor < searchEnd(params)
    /\ LET k == firstOverlap(busySlots, cursor, cursor + duration(params))
       IN  /\ k # 0
           /\ cursor' = cursorAfter(busySlots, k, params)
    /\ iterations' = iterations + 1
    /\ UNCHANGED <<connected, outcome, listResp, fbResp, pc, params, busySlots,
                   calls, result>>

\* the iteration that finds the window free: the suggestion is returned
AltFound ==
    /\ pc = "search"
    /\ cursor < searchEnd(params)
    /\ firstOverlap(busySlots, cursor, cursor + duration(params)) = 0
    /\ result' = [result EXCEPT !.suggestion =
                     <<[start |-> cursor, end |-> cursor + duration(params),
                        reason |-> suggestionReason(cursor, params)]>>]
    /\ pc' = "done"
    /\ UNCHANGED <<connected, outcome, listResp, fbResp, params, cursor,
                   busySlots, iterations, calls>>

\* the loop ends at the horizon: no suggestion
AltGiveUp ==
    /\ pc = "search"
    /\ cursor >= searchEnd(params)
    /\ pc' = "done"
    /\ UNCHANGED <<connected, outcome, listResp, fbResp, params, cursor,
                   busySlots, iterations, calls, result>>

-----------------------------------------------------------------------------
(* The conflict detector's specification *)

ShowAsValues == {"free", "busy", "tentative"}

\* the proposed interval starts here
ProposedStart == 1

\* an event that ends at the horizon of a search from ProposedStart
FarEnds == {ProposedStart + searchDays * 24}

EventStarts == 0..MaxTick
EventEnds == (0..MaxTick) \cup FarEnds

\* the events provider p may return: any start and end (zero-length and
\* reversed included), any showAs
EventsOf(p) ==
    {[id |-> "e1", provider |-> providerType(p), start |-> s, end |-> e,
      showAs |-> a] : s \in EventStarts, e \in EventEnds, a \in ShowAsValues}

SeqUpTo1(S) == {<<>>} \cup {<<x>> : x \in S}

ConflictParams ==
    {[startTime |-> ProposedStart, endTime |-> e, excludeEventId |-> x[1],
      excludeProvider |-> x[2]] :
        e \in {ProposedStart, ProposedStart + 1, ProposedStart + 3},
        x \in {<<None, None>>, <<"e1", None>>, <<"e1", "google">>,
               <<"e1", "microsoft">>, <<"e2", "google">>, <<None, "google">>}}

NoParams == [op |-> None]
NoResult == [status |-> None]

InitConflict ==
    /\ connected = [p \in Providers |-> TRUE]
    /\ outcome \in [Providers -> {"ok", "fail"}]
    /\ listResp \in [Providers -> UNION {SeqUpTo1(EventsOf(p)) : p \in Providers}]
    /\ \A p \in Providers :
          /\ \A i \in 1..Len(listResp[p]) : listResp[p][i] \in EventsOf(p)
          /\ outcome[p] = "fail" => listResp[p] = <<>>
    /\ fbResp = [p \in Providers |-> <<>>]
    /\ pc = "idle"
    /\ params = NoParams
    /\ cursor = 0
    /\ busySlots = <<>>
    /\ iterations = 0
    /\ calls = [p \in Providers |-> "idle"]
    /\ result = NoResult

NextConflict ==
    \/ \E prm \in ConflictParams : CheckConflicts(prm)
    \/ AltJump
    \/ AltFound
    \/ AltGiveUp

SpecConflict == InitConflict /\ [][NextConflict]_vars

-----------------------------------------------------------------------------
(* Claims about the conflict detector *)

\* checkConflicts has returned its conflicts (the search may still run)
Checked == pc \in {"search", "done"}

\* the events the providers' queries returned to checkConflicts
QueryEvents ==
    UNION {Range(listResp[p]) :
              p \in {q \in Providers : connected[q] /\ outcome[q] = "ok"}}

NonFreeQueryEvents == {e \in QueryEvents : e.showAs # "free"}

\* C1: if the event query of a connected provider fails, checkConflicts fails
\* as a whole and returns no ConflictCheckResult
C1_ProviderFailureFailsCheck ==
    (Checked /\ \E p \in Providers : connected[p] /\ outcome[p] = "fail")
        => result.status = "error"

\* C2: an event with showAs = "free" is never listed in conflicts, never makes
\* hasConflict true, and never moves the suggestion: the suggestion starts at
\* the proposed start or where a non-free event ends
C2_FreeNeverBusy ==
    Checked =>
        /\ \A i \in 1..Len(result.conflicts) : result.conflicts[i].showAs # "free"
        /\ result.hasConflict => NonFreeQueryEvents # {}
        /\ pc = "search" =>
              \/ cursor = params.startTime
              \/ \E e \in NonFreeQueryEvents : cursor = e.end
        /\ result.suggestion # <<>> =>
              \/ result.suggestion[1].start = params.startTime
              \/ \E e \in NonFreeQueryEvents : result.suggestion[1].start = e.end

\* a free event lies in the proposed interval, next to a conflicting busy
\* event, and the search has passed it
C2_Witness ==
    /\ pc = "done"
    /\ result.suggestion # <<>>
    /\ \E f \in QueryEvents :
          /\ f.showAs = "free"
          /\ f.start < result.suggestion[1].end
          /\ f.end > result.suggestion[1].start

\* the event the exclusion parameters identify: the id, on the provider when
\* one is given
IdentifiedByExclusion(e) ==
    /\ params.excludeEventId # None
    /\ e.id = params.excludeEventId
    /\ params.excludeProvider # None => e.provider = params.excludeProvider

ShouldConflict(e) ==
    /\ ~IdentifiedByExclusion(e)
    /\ e.showAs # "free"
    /\ e.start < params.endTime
    /\ e.end > params.startTime

\* C3: an event returned by the query is listed in conflicts iff it is not the
\* excluded event, is not free and overlaps the proposed interval (half-open);
\* hasConflict is true exactly when the list is non-empty
C3_ConflictsExactly ==
    Checked =>
        /\ \A e \in QueryEvents :
              (conflictEntry(e) \in Range(result.conflicts)) <=> ShouldConflict(e)
        /\ \A c \in Range(result.conflicts) :
              \E e \in QueryEvents : c = conflictEntry(e)
        /\ Len(result.conflicts) = Cardinality({e \in QueryEvents : ShouldConflict(e)})
        /\ result.hasConflict <=> result.conflicts # <<>>

\* the excluded event overlaps and is left out, while the event with the same
\* id on the other provider is listed
C3_Witness ==
    /\ Checked
    /\ params.excludeEventId = "e1"
    /\ params.excludeProvider = "google"
    /\ \E e \in QueryEvents :
          /\ e.provider = "google" /\ e.id = "e1" /\ e.showAs # "free"
          /\ e.start < params.endTime /\ e.end > params.startTime
          /\ conflictEntry(e) \notin Range(result.conflicts)
    /\ \E c \in Range(result.conflicts) : c.provider = "microsoft" /\ c.id = "e1"

\* the window [t, t + d) overlaps no non-free event returned by the query
WindowFree(t) ==
    \A e \in NonFreeQueryEvents :
        ~(t < e.end /\ t + (params.endTime - params.startTime) > e.start)

FreeStarts ==
    {t \in params.startTime..(params.startTime + 7 * 24 - 1) : WindowFree(t)}

\* C4: with conflicts, the suggestion is the earliest window of the proposed
\* duration starting at or after proposedStart that overlaps no non-free
\* event; none when no such window starts within 7 days; none without conflict
C4_EarliestFreeWindow ==
    pc = "done" =>
        IF ~result.hasConflict \/ FreeStarts = {}
        THEN result.suggestion = <<>>
        ELSE /\ result.suggestion # <<>>
             /\ result.suggestion[1].start \in FreeStarts
             /\ \A t \in FreeStarts : result.suggestion[1].start <= t
             /\ result.suggestion[1].end =
                   result.suggestion[1].start + (params.endTime - params.startTime)

\* the search passed two busy events before it found the free window
C4_Witness ==
    /\ pc = "done"
    /\ result.suggestion # <<>>
    /\ iterations >= 2
    /\ result.suggestion[1].start > params.endTime

\* C5: every iteration of the search that finds an overlap moves the cursor
\* strictly forward, so no cursor value repeats and the loop runs at most once
\* per busy time before it ends, also with zero-length and reversed events
C5_SearchTerminates ==
    /\ [][(pc = "search" /\ pc' = "search") => cursor' > cursor]_vars
    /\ [](pc = "search" => iterations <= Len(busySlots))

\* the search has jumped to the end of a zero-length or a reversed event
C5_Witness ==
    /\ pc = "search"
    /\ iterations >= 1
    /\ \E e \in NonFreeQueryEvents : e.end <= e.start /\ cursor = e.end

-----------------------------------------------------------------------------
(* Time-interval utilities: Luxon intervals, mergeIntervals, findGaps *)

\* createInterval: Interval.fromDateTimes, invalid when the end precedes the start
createInterval(s, e) == [start |-> s, end |-> e, isValid |-> e >= s]

\* Interval.overlaps and Interval.abutsStart
intervalOverlaps(a, b) == a.end > b.start /\ a.start < b.end
intervalAbutsStart(a, b) == a.end = b.start

RECURSIVE mergeIntervalsFrom(_, _, _, _)
mergeIntervalsFrom(sorted, i, current, merged) ==
    IF i > Len(sorted) THEN Append(merged, current)
    ELSE LET next == sorted[i]
         IN  IF intervalOverlaps(current, next) \/ intervalAbutsStart(current, next)
             THEN mergeIntervalsFrom(sorted, i + 1,
                     createInterval(current.start,
                                    IF current.end > next.end THEN current.end
                                                              ELSE next.end),
                     merged)
             ELSE mergeIntervalsFrom(sorted, i + 1, next, Append(merged, current))

\* the filter of mergeIntervals
isValidInterval(i) == i.isValid

mergeIntervals(intervals) ==
    LET validIntervals == SelectSeq(intervals, isValidInterval)
    IN  IF validIntervals = <<>> THEN <<>>
        ELSE LET sorted == SortByStart(validIntervals)
             IN  mergeIntervalsFrom(sorted, 2, sorted[1], <<>>)

\* the gap after the last interval
gapsClosed(cur, gaps, rangeEnd) ==
    IF cur < rangeEnd THEN Append(gaps, createInterval(cur, rangeEnd)) ELSE gaps

RECURSIVE gapsFrom(_, _, _, _, _, _)
gapsFrom(merged, i, cur, gaps, rangeStart, rangeEnd) ==
    IF i > Len(merged) THEN gapsClosed(cur, gaps, rangeEnd)
    ELSE LET iv == merged[i]
         IN  IF iv.end <= rangeStart
             THEN gapsFrom(merged, i + 1, cur, gaps, rangeStart, rangeEnd)
             ELSE IF iv.start >= rangeEnd
             THEN gapsClosed(cur, gaps, rangeEnd)
             ELSE LET effectiveStart == IF iv.start > rangeStart THEN iv.start
                                                                ELSE rangeStart
                      effectiveEnd == IF iv.end < rangeEnd THEN iv.end ELSE rangeEnd
                  IN  gapsFrom(merged, i + 1, effectiveEnd,
                               IF cur < effectiveStart
                               THEN Append(gaps, createInterval(cur, effectiveStart))
                               ELSE gaps,
                               rangeStart, rangeEnd)

findGaps(intervals, rangeStart, rangeEnd) ==
    gapsFrom(mergeIntervals(intervals), 1, rangeStart, <<>>, rangeStart, rangeEnd)

-----------------------------------------------------------------------------
(* Availability engine: FreeBusyService *)

\* the default number of suggestions of findSuggestedSlots
maxSuggestions == 5

\* config.defaults.workingHours: 09:00 to 17:00, Monday to Friday
defaultWorkStart == 9
defaultWorkEnd == 17
WeekDays == <<"monday", "tuesday", "wednesday", "thursday", "friday",
              "saturday", "sunday">>
defaultWorkingHours ==
    [start |-> <<defaultWorkStart, 0>>, end |-> <<defaultWorkEnd, 0>>,
     days |-> {WeekDays[i] : i \in 1..5}]

\* The availability engine's clock counts ticks, a fixed fraction of a minute
\* (Luxon keeps milliseconds); tick 0 is a Monday, 00:00.
ticksPerMinute == 2
ticksPerDay == 24 * 60 * ticksPerMinute

\* "HH:mm".split(':').map(Number), as a time of day in ticks
timeOfDay(hm) == (hm[1] * 60 + hm[2]) * ticksPerMinute

\* Math.round of a length in ticks expressed in minutes (halves round up)
roundedMinutes(ticks) == (2 * ticks + ticksPerMinute) \div (2 * ticksPerMinute)

startOfDay(t) == (t \div ticksPerDay) * ticksPerDay
weekdayLong(t) == WeekDays[((t \div ticksPerDay) % 7) + 1]

\* the calendarId of the CalendarFreeBusy provider p returns
calendarIdOf(p) == IF p = "google-1" THEN "primary" ELSE "calendar"

\* mutant: the slots of every queried provider are aggregated
allBusySlotsOfEveryProvider(providers) == Concat(providers, fbResp)

\* allBusySlots: the busy slots of the fulfilled results, in provider order
allBusySlotsOf(providers) == Concat(fulfilledOf(providers), fbResp)

\* the entry pushed to errors for a rejected getFreeBusy
freeBusyError(p) == [provider |-> providerType(p), calendarId |-> p]

\* mutant: the merged slot always takes the status of the slot merged into it
mergedStatusOfNext(current, next) == next.status

\* the status of current after next is merged into it
mergedStatus(current, next) ==
    IF next.status = "busy" \/ current.status # "busy"
    THEN next.status ELSE current.status

RECURSIVE mergeBusyFrom(_, _, _, _)
mergeBusyFrom(sorted, i, current, merged) ==
    IF i > Len(sorted) THEN Append(merged, current)
    ELSE LET next == sorted[i]
         IN  IF next.start <= current.end
             THEN mergeBusyFrom(sorted, i + 1,
                     [current EXCEPT
                        !.end = IF next.end > current.end THEN next.end ELSE @,
                        !.status = mergedStatus(current, next)],
                     merged)
             ELSE mergeBusyFrom(sorted, i + 1, next, Append(merged, current))

mergeBusySlots(slots) ==
    IF slots = <<>> THEN <<>>
    ELSE LET sorted == SortByStart(slots)
         IN  mergeBusyFrom(sorted, 2, sorted[1], <<>>)

\* a FreeSlot: durationMinutes is Math.round of the length in minutes
freeSlot(s, e) == [start |-> s, end |-> e, durationMinutes |-> roundedMinutes(e - s)]

\* mutant: the gap search starts one hour into the range
computeFreeSlotsLate(slots, rangeStart, rangeEnd) ==
    LET gaps == findGaps([i \in 1..Len(slots) |->
                             createInterval(slots[i].start, slots[i].end)],
                         rangeStart + 1, rangeEnd)
    IN  [i \in 1..Len(gaps) |-> freeSlot(gaps[i].start, gaps[i].end)]

computeFreeSlots(slots, rangeStart, rangeEnd) ==
    LET gaps == findGaps([i \in 1..Len(slots) |->
                             createInterval(slots[i].start, slots[i].end)],
                         rangeStart, rangeEnd)
    IN  [i \in 1..Len(gaps) |-> freeSlot(gaps[i].start, gaps[i].end)]

\* mutant: every day is a working day
getWorkingHoursEveryDay(date, hours) ==
    <<[start |-> startOfDay(date) + timeOfDay(hours.start),
       end |-> startOfDay(date) + timeOfDay(hours.end)]>>

\* getWorkingHoursForDay: <<>> for null
getWorkingHoursForDay(date, hours) ==
    IF weekdayLong(date) \notin hours.days THEN <<>>
    ELSE <<[start |-> startOfDay(date) + timeOfDay(hours.start),
            end |-> startOfDay(date) + timeOfDay(hours.end)]>>

\* the while loop of filterToWorkingHours over the days of one free slot
RECURSIVE workingHoursOfSlot(_, _, _)
workingHoursOfSlot(slot, day, hours) ==
    IF ~(day < slot.end) THEN <<>>
    ELSE LET dayWorkingHours == getWorkingHoursForDay(day, hours)
             effectiveStart == IF slot.start > dayWorkingHours[1].start
                               THEN slot.start ELSE dayWorkingHours[1].start
             effectiveEnd == IF slot.end < dayWorkingHours[1].end
                             THEN slot.end ELSE dayWorkingHours[1].end
         IN  (IF dayWorkingHours # <<>> /\ effectiveStart < effectiveEnd
              THEN <<freeSlot(effectiveStart, effectiveEnd)>> ELSE <<>>)
             \o workingHoursOfSlot(slot, day + ticksPerDay, hours)

RECURSIVE filterToWorkingHoursFrom(_, _, _)
filterToWorkingHoursFrom(freeSlots, i, hours) ==
    IF i > Len(freeSlots) THEN <<>>
    ELSE workingHoursOfSlot(freeSlots[i], startOfDay(freeSlots[i].start), hours)
         \o filterToWorkingHoursFrom(freeSlots, i + 1, hours)

\* workingHours = <<>> stands for "not given": the configured default applies
filterToWorkingHours(freeSlots, workingHours) ==
    filterToWorkingHoursFrom(freeSlots, 1,
        IF workingHours = <<>> THEN defaultWorkingHours ELSE workingHours[1])

\* the suggestion pushed for a free slot
suggestionOf(slot, minDurationMinutes) ==
    [start |-> slot.start,
     end |-> slot.start + minDurationMinutes * ticksPerMinute,
     durationMinutes |-> minDurationMinutes]

\* mutant: the loop does not stop at maxSuggestions
RECURSIVE suggestAllFrom(_, _, _, _)
suggestAllFrom(freeSlots, i, minDurationMinutes, suggested) ==
    IF i > Len(freeSlots) THEN suggested
    ELSE IF freeSlots[i].durationMinutes >= minDurationMinutes
    THEN suggestAllFrom(freeSlots, i + 1, minDurationMinutes,
                        Append(suggested, suggestionOf(freeSlots[i], minDurationMinutes)))
    ELSE suggestAllFrom(freeSlots, i + 1, minDurationMinutes, suggested)

RECURSIVE suggestFrom(_, _, _, _)
suggestFrom(freeSlots, i, minDurationMinutes, suggested) ==
    IF i > Len(freeSlots) THEN suggested
    ELSE IF freeSlots[i].durationMinutes >= minDurationMinutes
    THEN suggestFrom(freeSlots,
                     IF Len(suggested) + 1 >= maxSuggestions
                     THEN Len(freeSlots) + 1 ELSE i + 1,
                     minDurationMinutes,
                     Append(suggested, suggestionOf(freeSlots[i], minDurationMinutes)))
    ELSE suggestFrom(freeSlots, i + 1, minDurationMinutes, suggested)

findSuggestedSlots(freeSlots, minDurationMinutes) ==
    suggestFrom(freeSlots, 1, minDurationMinutes, <<>>)

\* calendars: calendarId -> the busy slots of the last fulfilled result with that id
calendarsOf(fulfilled) ==
    [c \in {calendarIdOf(fulfilled[i]) : i \in 1..Len(fulfilled)} |->
        LET last == CHOOSE i \in 1..Len(fulfilled) :
                        /\ calendarIdOf(fulfilled[i]) = c
                        /\ \A j \in 1..Len(fulfilled) :
                              calendarIdOf(fulfilled[j]) = c => j <= i
        IN  fbResp[fulfilled[last]]]

\* FreeBusyService.getAggregatedFreeBusy; slotDuration = 0 stands for "not
\* given", suggestedSlots = <<>> for "undefined"
getAggregatedFreeBusy(prm) ==
    LET providers == targetProviders(prm.providers)
    IN  IF providers = <<>>
        THEN [status |-> "ok", calendars |-> <<>>,
              unified |-> [busy |-> <<>>, free |-> <<>>],
              suggestedSlots |-> <<>>, errors |-> <<>>]
        ELSE LET rejected == rejectedOf(providers)
                 mergedBusy == mergeBusySlots(allBusySlotsOf(providers))
                 gaps == computeFreeSlots(mergedBusy, prm.startTime, prm.endTime)
                 freeSlots == IF prm.workingHoursOnly
                              THEN filterToWorkingHours(gaps, prm.workingHours)
                              ELSE gaps
             IN  [status |-> "ok",
                  calendars |-> calendarsOf(fulfilledOf(providers)),
                  unified |-> [busy |-> mergedBusy, free |-> freeSlots],
                  suggestedSlots |->
                      IF prm.slotDuration > 0
                      THEN <<findSuggestedSlots(freeSlots, prm.slotDuration)>>
                      ELSE <<>>,
                  errors |-> [i \in 1..Len(rejected) |-> freeBusyError(rejected[i])]]

GetAggregatedFreeBusy(prm) ==
    /\ pc = "idle"
    /\ params' = prm
    /\ result' = getAggregatedFreeBusy(prm)
    /\ pc' = "done"
    /\ UNCHANGED <<connected, outcome, listResp, fbResp, cursor, busySlots,
                   iterations, calls>>

-----------------------------------------------------------------------------
(* The availability engine's specification *)

BusyStatuses == {"busy", "tentative", "oof"}

\* the busy slots a backend may hold: a start, an end not before it, a status
BusySlotValues ==
    {b \in [start : 0..MaxTick, end : 0..MaxTick, status : BusyStatuses] :
        b.start <= b.end}

\* requests over a few ticks, answered from the gaps as they are
PlainParams ==
    {[startTime |-> r[1], endTime |-> r[2], providers |-> f,
      slotDuration |-> d, workingHoursOnly |-> FALSE, workingHours |-> <<>>] :
        r \in {<<0, MaxTick>>, <<1, MaxTick - 1>>},
        f \in {{}, {"google"}, {"exchange"}},
        d \in 0..1}

\* working hours of one minute from midnight, on Monday and Wednesday
ShortHours == [start |-> <<0, 0>>, end |-> <<0, 1>>, days |-> {"monday", "wednesday"}]

\* requests over several days, answered within working hours
WorkingHoursParams ==
    {[startTime |-> 0, endTime |-> 3 * ticksPerDay, providers |-> f,
      slotDuration |-> d, workingHoursOnly |-> TRUE, workingHours |-> <<ShortHours>>] :
        f \in {{}, {"google"}}, d \in 0..1}
    \cup {[startTime |-> 0, endTime |-> 8 * ticksPerDay, providers |-> {},
            slotDuration |-> 60, workingHoursOnly |-> TRUE, workingHours |-> <<>>],
           [startTime |-> 0, endTime |-> 8 * ticksPerDay, providers |-> {"exchange"},
            slotDuration |-> 60, workingHoursOnly |-> TRUE, workingHours |-> <<>>]}

FreeBusyParams == PlainParams \cup WorkingHoursParams

InitFreeBusy ==
    /\ connected = [p \in Providers |-> TRUE]
    /\ outcome \in [Providers -> {"ok", "fail"}]
    /\ listResp = [p \in Providers |-> <<>>]
    /\ fbResp \in [Providers -> SeqUpTo1(BusySlotValues)]
    /\ pc = "idle"
    /\ params = NoParams
    /\ cursor = 0
    /\ busySlots = <<>>
    /\ iterations = 0
    /\ calls = [p \in Providers |-> "idle"]
    /\ result = NoResult

NextFreeBusy == \E prm \in FreeBusyParams : GetAggregatedFreeBusy(prm)

SpecFreeBusy == InitFreeBusy /\ [][NextFreeBusy]_vars

-----------------------------------------------------------------------------
(* Properties of the availability engine *)

Aggregated == pc = "done" /\ result.status = "ok"

\* the providers the request queried, split by the outcome of getFreeBusy
Queried == Range(targetProviders(params.providers))
Succeeding == {p \in Queried : outcome[p] = "ok"}
Failing == {p \in Queried : outcome[p] = "fail"}

\* the busy slots returned by the succeeding providers
ReturnedBusy == UNION {Range(fbResp[p]) : p \in Succeeding}

\* C6: getAggregatedFreeBusy never fails because a provider's getFreeBusy
\* throws: the result is returned; every failing provider appears exactly once
\* in errors, with its own provider type and id, and errors holds nothing else;
\* every slot of unified.busy starts and ends where slots returned by
\* succeeding providers do and covers only ticks such slots cover; and every
\* busy slot returned by a succeeding provider lies inside a slot of
\* unified.busy.
C6_FreeBusyIsolatesFailures ==
    pc = "done" =>
        /\ result.status = "ok"
        /\ \A p \in Failing :
              Cardinality({i \in 1..Len(result.errors) :
                              result.errors[i] = freeBusyError(p)}) = 1
        /\ Len(result.errors) = Cardinality(Failing)
        /\ \A u \in Range(result.unified.busy) :
              /\ \E b \in ReturnedBusy : b.start = u.start
              /\ \E b \in ReturnedBusy : b.end = u.end
              /\ \A t \in u.start..(u.end - 1) :
                    \E b \in ReturnedBusy : b.start <= t /\ t < b.end
        /\ \A b \in ReturnedBusy :
              \E u \in Range(result.unified.busy) :
                  u.start <= b.start /\ b.end <= u.end

\* one provider threw while holding a busy slot, the other returned a
\* different one, and the result carries the error next to the aggregate
C6_Witness ==
    /\ Aggregated
    /\ Len(result.errors) = 1
    /\ result.unified.busy # <<>>
    /\ \E p \in Failing : fbResp[p] # <<>> /\ Range(fbResp[p]) \cap ReturnedBusy = {}

\* the ticks of the requested range
RangeTicks == params.startTime..(params.endTime - 1)
BusyTick(t) == \E b \in ReturnedBusy : b.start <= t /\ t < b.end
FreeTick(t) == \E f \in Range(result.unified.free) : f.start <= t /\ t < f.end

\* unified.free is the exact complement of the busy time inside the range
FreeIsComplement ==
    /\ \A f \in Range(result.unified.free) :
          /\ \A b \in ReturnedBusy : ~rangesOverlap(f.start, f.end, b.start, b.end)
          /\ params.startTime <= f.start
          /\ f.end <= params.endTime
    /\ \A t \in RangeTicks : ~BusyTick(t) => FreeTick(t)

\* C10 as stated: without workingHoursOnly, unified.free is the exact
\* complement of the busy time inside the requested range.
C10_FreeIsComplementAlways ==
    (pc = "done" /\ ~params.workingHoursOnly) => FreeIsComplement

\* C10: without workingHoursOnly, and when at least one connected provider
\* matches the provider filter, unified.free is the exact complement of the
\* busy time inside the requested range: no free slot overlaps a busy slot
\* returned by a succeeding provider, every free slot lies inside the range,
\* and every tick of the range not covered by such a busy slot lies in a free
\* slot.
C10_FreeIsComplement ==
    (pc = "done" /\ ~params.workingHoursOnly /\ Queried # {}) => FreeIsComplement

\* a busy slot strictly inside the range leaves a free slot on either side
C10_Witness ==
    /\ Aggregated
    /\ ~params.workingHoursOnly
    /\ Queried # {}
    /\ Len(result.unified.free) = 2
    /\ \E b \in ReturnedBusy : params.startTime < b.start /\ b.start < b.end
                                /\ b.end < params.endTime

\* the working hours a request is answered with
hoursOfRequest ==
    IF params.workingHours = <<>> THEN defaultWorkingHours ELSE params.workingHours[1]

\* the free gaps of the range, before any clipping to working hours
GapsOfRequest ==
    Range(computeFreeSlots(result.unified.busy, params.startTime, params.endTime))

\* f lies in the working-hours window of the day it starts on, a listed day
InWindowOfWorkingDay(f) ==
    /\ weekdayLong(f.start) \in hoursOfRequest.days
    /\ startOfDay(f.start) + timeOfDay(hoursOfRequest.start) <= f.start
    /\ f.end <= startOfDay(f.start) + timeOfDay(hoursOfRequest.end)

\* C14: with workingHoursOnly, every returned free slot is non-empty, is
\* contained in one free gap computed before clipping, and is contained in the
\* working-hours window of one listed working day (so a day not listed in
\* workingHours.days contributes no free slot).
C14_FreeWithinWorkingHours ==
    (pc = "done" /\ params.workingHoursOnly) =>
        \A f \in Range(result.unified.free) :
            /\ f.start < f.end
            /\ \E g \in GapsOfRequest : g.start <= f.start /\ f.end <= g.end
            /\ InWindowOfWorkingDay(f)

\* Monday's window is clipped by a busy slot at its start, Tuesday is skipped
\* and Wednesday's window is returned whole
C14_Witness ==
    /\ Aggregated
    /\ params.workingHoursOnly
    /\ params.workingHours = <<ShortHours>>
    /\ \E b \in ReturnedBusy : b.start = 0 /\ b.end = 1
    /\ Len(result.unified.free) = 2
    /\ result.unified.free[1].start = 1
    /\ result.unified.free[2].start = 2 * ticksPerDay

\* the suggestions of a result that has them
Suggested == IF result.suggestedSlots = <<>> THEN {} ELSE Range(result.suggestedSlots[1])

\* C15: every suggested slot starts at the start of a free slot, lasts exactly
\* slotDuration minutes, and ends no later than that free slot ends; a free
\* slot shorter than slotDuration yields no suggestion.
C15_SuggestionsFit ==
    (pc = "done" /\ params.slotDuration > 0) =>
        \A s \in Suggested :
            /\ s.end - s.start = params.slotDuration * ticksPerMinute
            /\ \E f \in Range(result.unified.free) :
                  /\ s.start = f.start
                  /\ s.end <= f.end
                  /\ f.end - f.start >= params.slotDuration * ticksPerMinute

\* the positions of the free slots that satisfy the duration, as
\* findSuggestedSlots tests it: by the slot's durationMinutes
Qualifying ==
    {i \in 1..Len(result.unified.free) :
        result.unified.free[i].durationMinutes >= params.slotDuration}

\* the position of the k-th qualifying free slot
kthQualifying(k) ==
    CHOOSE i \in Qualifying : Cardinality({j \in Qualifying : j <= i}) = k

\* C16: findSuggestedSlots never returns more than 5 slots, however many free
\* slots satisfy the duration: it returns one suggestion for each of the first
\* min(5, k) of the k qualifying free slots, in the order of the free-slot list
\* (the n-th suggestion starts where the n-th qualifying free slot starts).
C16_AtMostFiveInOrder ==
    (pc = "done" /\ params.slotDuration > 0 /\ result.suggestedSlots # <<>>) =>
        /\ Len(result.suggestedSlots[1]) <= 5
        /\ Len(result.suggestedSlots[1]) =
               IF Cardinality(Qualifying) < 5 THEN Cardinality(Qualifying) ELSE 5
        /\ \A n \in 1..Len(result.suggestedSlots[1]) :
               result.suggestedSlots[1][n].start =
                   result.unified.free[kthQualifying(n)].start

\* six working days qualify and the sixth is left out
C16_Witness ==
    /\ Aggregated
    /\ params.slotDuration > 0
    /\ result.suggestedSlots # <<>>
    /\ Cardinality(Qualifying) = 6
    /\ Len(result.suggestedSlots[1]) = 5

\* C27: getAggregatedFreeBusy reports time as free only when free/busy data
\* was obtained from at least one provider: when no connected provider matches
\* the filter or every queried provider fails, unified.free and suggestedSlots
\* contain no slot.
C27_NoDataNoFree ==
    (pc = "done" /\ Succeeding = {}) =>
        /\ result.unified.free = <<>>
        /\ Suggested = {}

-----------------------------------------------------------------------------
(* Fan-out queries: issue one call per provider, join with Promise.allSettled *)

\* the calendars a provider's listCalendars returns
calendarsOfProvider ==
    [p \in Providers |-> <<[id |-> calendarIdOf(p), provider |-> providerType(p)]>>]

\* CalendarService.listAllCalendars; "all" also stands for "not given"
listAllCalendars(providerFilter) ==
    LET providers == getConnected
        targetProvs ==
            IF providerFilter # "all"
            THEN SelectIds(providers,
                           {p \in Providers : providerType(p) = providerFilter})
            ELSE providers
    IN  IF targetProvs = <<>>
        THEN [calendars |-> <<>>, errors |-> <<>>]
        ELSE LET rejected == rejectedOf(targetProvs)
             IN  [calendars |-> Concat(fulfilledOf(targetProvs), calendarsOfProvider),
                  errors |-> [i \in 1..Len(rejected) |-> providerError(rejected[i])]]

\* the providers a fan-out query issues a call to
queriedBy(req) ==
    IF req.op = "listAllCalendars"
    THEN IF req.providerFilter # "all"
         THEN SelectIds(getConnected,
                        {p \in Providers : providerType(p) = req.providerFilter})
         ELSE getConnected
    ELSE targetProviders(req.providers)

\* the value the query returns once its calls are joined
aggregateOf(req) ==
    CASE req.op = "listAllEvents" -> listAllEvents(req.providers, req.maxResults)
      [] req.op = "listAllCalendars" -> listAllCalendars(req.providerFilter)
      [] req.op = "getAggregatedFreeBusy" -> getAggregatedFreeBusy(req)

\* mutant: the join resumes as soon as one call has settled
someSettled == \E p \in Providers : calls[p] \in {"fulfilled", "rejected"}

\* Promise.allSettled resolves when no call is pending any more
allSettled == \A p \in Providers : calls[p] # "pending"

\* the calls are issued; with no provider to query the result is returned at once
IssueFanout(req) ==
    /\ pc = "idle"
    /\ params' = req
    /\ IF queriedBy(req) = <<>>
       THEN /\ result' = [status |-> "ok", value |-> aggregateOf(req)]
            /\ pc' = "done"
            /\ UNCHANGED calls
       ELSE /\ calls' = [p \in Providers |->
                            IF p \in Range(queriedBy(req)) THEN "pending" ELSE "idle"]
            /\ pc' = "awaiting"
            /\ UNCHANGED result
    /\ UNCHANGED <<connected, outcome, listResp, fbResp, cursor, busySlots, iterations>>

\* a provider's call completes: it returns or throws
SettleCall(p) ==
    /\ pc = "awaiting"
    /\ calls[p] = "pending"
    /\ calls' = [calls EXCEPT ![p] = IF outcome[p] = "ok" THEN "fulfilled"
                                                        ELSE "rejected"]
    /\ UNCHANGED <<connected, outcome, listResp, fbResp, pc, params, cursor,
                   busySlots, iterations, result>>

\* the await on Promise.allSettled resumes and the aggregate is built
JoinFanout ==
    /\ pc = "awaiting"
    /\ allSettled
    /\ result' = [status |-> "ok", value |-> aggregateOf(params)]
    /\ pc' = "done"
    /\ UNCHANGED <<connected, outcome, listResp, fbResp, params, cursor,
                   busySlots, iterations, calls>>

-----------------------------------------------------------------------------
(* The fan-out specification *)

FanoutEvents(p) ==
    {e \in EventsOf(p) : e.showAs = "busy" /\ e.start \in 0..1 /\ e.end = e.start + 1}

FanoutBusy == {[start |-> 1, end |-> 2, status |-> "busy"]}

ProviderFilters == {{}, {"google"}, {"exchange"}}

FanoutRequests ==
    {[op |-> "listAllEvents", providers |-> f, maxResults |-> m] :
        f \in ProviderFilters, m \in 0..1}
    \cup {[op |-> "listAllCalendars", providerFilter |-> f] :
            f \in {"all", "google", "exchange"}}
    \cup {[op |-> "getAggregatedFreeBusy", providers |-> f, startTime |-> 0,
           endTime |-> 3, slotDuration |-> 0, workingHoursOnly |-> FALSE,
           workingHours |-> <<>>] : f \in ProviderFilters}

InitFanout ==
    /\ connected = [p \in Providers |-> TRUE]
    /\ outcome \in [Providers -> {"ok", "fail"}]
    /\ \E a \in SeqUpTo1(FanoutEvents("google-1")),
          b \in SeqUpTo1(FanoutEvents("microsoft-1")) :
            listResp = [p \in Providers |-> IF p = "google-1" THEN a ELSE b]
    /\ fbResp \in [Providers -> SeqUpTo1(FanoutBusy)]
    /\ pc = "idle"
    /\ params = NoParams
    /\ cursor = 0
    /\ busySlots = <<>>
    /\ iterations = 0
    /\ calls = [p \in Providers |-> "idle"]
    /\ result = NoResult

NextFanout ==
    \/ \E req \in FanoutRequests : IssueFanout(req)
    \/ \E p \in Providers : SettleCall(p)
    \/ JoinFanout

SpecFanout == InitFanout /\ [][NextFanout]_vars

-----------------------------------------------------------------------------
(* Properties of the fan-out *)

FailedQueried == {p \in Range(queriedBy(params)) : outcome[p] = "fail"}

\* C7: whenever at least one provider fails during listAllEvents, the returned
\* result carries the collected errors and has partialSuccess = TRUE, whatever
\* events the succeeding providers returned.
C7_FailureFlagsPartial ==
    (pc = "done" /\ params.op = "listAllEvents" /\ FailedQueried # {}) =>
        /\ Range(result.value.errors) = {providerError(p) : p \in FailedQueried}
        /\ result.value.partialSuccess

\* C8 as stated: one slow provider never blocks the aggregate result; once the
\* other providers have answered, the result built from them can be returned
\* without waiting for the call still pending.
C8_SlowProviderNeverBlocks ==
    (/\ pc = "awaiting"
     /\ \E slow \in Providers :
          /\ calls[slow] = "pending"
          /\ \E q \in Providers : calls[q] \in {"fulfilled", "rejected"}
          /\ \A q \in Providers \ {slow} : calls[q] # "pending")
    => ENABLED JoinFanout

NoCallPending == \A p \in Providers : calls[p] \in {"idle", "fulfilled", "rejected"}

\* C8: in a fan-out query a provider that is slow or throws does not fail the
\* aggregate and does not disturb the other providers' calls, but the result
\* is returned only once every call issued has settled: the query never
\* returns from a state where a call is pending, and a call that settles
\* leaves every other call as it was.
C8_ResultAwaitsEveryCall ==
    /\ [](pc = "done" => (result.status = "ok" /\ NoCallPending))
    /\ [][(pc = "awaiting" /\ pc' = "done") => NoCallPending]_vars
    /\ [][(pc = "awaiting" /\ pc' = "awaiting") =>
             \E p \in Providers :
                 /\ calls[p] = "pending" /\ calls'[p] # "pending"
                 /\ \A q \in Providers \ {p} : calls'[q] = calls[q]]_vars

\* one provider has answered with an event while the other call is pending,
\* and the query has not returned
C8_Witness ==
    /\ pc = "awaiting"
    /\ params.op = "listAllEvents"
    /\ \E slow \in Providers, q \in Providers :
          /\ calls[slow] = "pending"
          /\ calls[q] = "fulfilled"
          /\ listResp[q] # <<>>
    /\ result = NoResult

-----------------------------------------------------------------------------
(* Event matcher and synchronizer: SyncService *)
(* Strings are sequences of characters; a missing optional string is the     *)
(* empty sequence.  Scores are exact fractions [num, den].  In this part the *)
(* clock of an event counts minutes.                                         *)

\* String.prototype.toLowerCase, character by character
lowerChar(c) == IF c = "A" THEN "a" ELSE IF c = "B" THEN "b" ELSE c
toLowerCase(str) == [i \in 1..Len(str) |-> lowerChar(str[i])]

\* String.prototype.trim
RECURSIVE trimStart(_)
trimStart(str) ==
    IF str # <<>> /\ Head(str) = " " THEN trimStart(Tail(str)) ELSE str

RECURSIVE trimEnd(_)
trimEnd(str) ==
    IF str # <<>> /\ str[Len(str)] = " "
    THEN trimEnd(SubSeq(str, 1, Len(str) - 1)) ELSE str

trim(str) == trimEnd(trimStart(str))

Min3(a, b, c) ==
    IF a <= b /\ a <= c THEN a ELSE IF b <= c THEN b ELSE c

\* matrix[i][j] of fuzzyMatch: the Levenshtein distance of the prefixes
RECURSIVE levenshtein(_, _, _, _)
levenshtein(s1, s2, i, j) ==
    IF i = 0 THEN j
    ELSE IF j = 0 THEN i
    ELSE Min3(levenshtein(s1, s2, i - 1, j) + 1,
              levenshtein(s1, s2, i, j - 1) + 1,
              levenshtein(s1, s2, i - 1, j - 1)
                + (IF s1[i] = s2[j] THEN 0 ELSE 1))

Fraction(n, d) == [num |-> n, den |-> d]

\* a >= n/d, for a fraction a
atLeast(a, n, d) == a.num * d >= n * a.den

\* a > b, for fractions a and b
greaterThan(a, b) == a.num * b.den > b.num * a.den

\* SyncService.fuzzyMatch
fuzzyMatch(str1, str2) ==
    IF str1 = <<>> /\ str2 = <<>> THEN Fraction(1, 1)
    ELSE IF str1 = <<>> \/ str2 = <<>> THEN Fraction(0, 1)
    ELSE LET s1 == trim(toLowerCase(str1))
             s2 == trim(toLowerCase(str2))
             maxLen == IF Len(s1) > Len(s2) THEN Len(s1) ELSE Len(s2)
         IN  IF s1 = s2 THEN Fraction(1, 1)
             ELSE IF Len(s1) = 0 \/ Len(s2) = 0 THEN Fraction(0, 1)
             ELSE Fraction(maxLen - levenshtein(s1, s2, Len(s1), Len(s2)), maxLen)

\* the weights of calculateMatch
subjectWeight == 30
startWeight == 25
endWeight == 20
locationWeight == 10
allDayWeight == 10
icalWeight == 5

\* 60000 ms and 300000 ms, in minutes
exactWithin == 1
partialWithin == 5

Abs(x) == IF x < 0 THEN 0 - x ELSE x

\* startScore / endScore, in halves: 2 for 1, 1 for 0.5, 0 for 0
timeScoreHalves(diff) ==
    IF diff <= exactWithin THEN 2 ELSE IF diff <= partialWithin THEN 1 ELSE 0

\* mutant: 'high' from 0.5 on
eventMatchHighFromHalf(source, target, factors, score) ==
    [sourceEvent |-> source,
     targetEvent |-> target,
     confidence |-> IF atLeast(score, 1, 2) THEN "high" ELSE "low",
     matchFactors |-> factors,
     score |-> score]

\* the EventMatch calculateMatch returns, given the factors and the score
eventMatch(source, target, factors, score) ==
    [sourceEvent |-> source,
     targetEvent |-> target,
     confidence |-> IF atLeast(score, 4, 5) THEN "high"
                    ELSE IF atLeast(score, 1, 2) THEN "medium" ELSE "low",
     matchFactors |-> factors,
     score |-> score]

\* mutant: the iCalUId factor is counted when either event carries a UID
hasICalUIdEither(source, target) == source.iCalUId # "" \/ target.iCalUId # ""

\* if (source.iCalUId && target.iCalUId)
hasICalUId(source, target) == source.iCalUId # "" /\ target.iCalUId # ""

\* the body of calculateMatch, given the two fuzzyMatch results
matchOf(source, target, subjectMatched, locationMatched) ==
    LET startDiff == Abs(source.start - target.start)
        endDiff == Abs(source.end - target.end)
        hasLocation == source.location # <<>> \/ target.location # <<>>
        allDayMatched == source.isAllDay = target.isAllDay
        hasICal == hasICalUId(source, target)
        icalMatched == source.iCalUId = target.iCalUId
        totalWeight == subjectWeight + startWeight + endWeight
                       + (IF hasLocation THEN locationWeight ELSE 0)
                       + allDayWeight
                       + (IF hasICal THEN icalWeight ELSE 0)
        \* matchedWeight is counted in units of 1 / unit
        unit == 2 * subjectMatched.den * locationMatched.den
        matchedWeight ==
            subjectWeight * subjectMatched.num * 2 * locationMatched.den
            + startWeight * timeScoreHalves(startDiff)
                * subjectMatched.den * locationMatched.den
            + endWeight * timeScoreHalves(endDiff)
                * subjectMatched.den * locationMatched.den
            + (IF hasLocation
               THEN locationWeight * locationMatched.num * 2 * subjectMatched.den
               ELSE 0)
            + (IF allDayMatched THEN allDayWeight * unit ELSE 0)
            + (IF hasICal /\ icalMatched THEN icalWeight * unit ELSE 0)
        factors ==
            <<[factor |-> "subject", weight |-> subjectWeight,
               matched |-> atLeast(subjectMatched, 4, 5)],
              [factor |-> "startTime", weight |-> startWeight,
               matched |-> startDiff <= exactWithin],
              [factor |-> "endTime", weight |-> endWeight,
               matched |-> endDiff <= exactWithin]>>
            \o (IF hasLocation
                THEN <<[factor |-> "location", weight |-> locationWeight,
                        matched |-> atLeast(locationMatched, 4, 5)]>>
                ELSE <<>>)
            \o <<[factor |-> "isAllDay", weight |-> allDayWeight,
                  matched |-> allDayMatched]>>
            \o (IF hasICal
                THEN <<[factor |-> "iCalUId", weight |-> icalWeight,
                        matched |-> icalMatched]>>
                ELSE <<>>)
    IN  eventMatch(source, target, factors,
                   Fraction(matchedWeight, unit * totalWeight))

\* SyncService.calculateMatch
calculateMatch(source, target) ==
    matchOf(source, target,
            fuzzyMatch(source.subject, target.subject),
            fuzzyMatch(source.location, target.location))

\* mutant: the floor is that of 'low' whatever minConfidence is
minScoreOfLow(minConfidence) == Fraction(3, 10)

\* minScore of findMatchingEvents: 0.8, 0.5 or 0.3; "" stands for "not given"
minScore(minConfidence) ==
    IF minConfidence = "high" THEN Fraction(4, 5)
    ELSE IF minConfidence = "medium" THEN Fraction(1, 2) ELSE Fraction(3, 10)

\* Array.prototype.sort with the comparator b.score - a.score: a stable sort
InsertByScore(sorted, x) ==
    LET k == Cardinality({i \in 1..Len(sorted) :
                             ~greaterThan(x.score, sorted[i].score)})
    IN  SubSeq(sorted, 1, k) \o <<x>> \o SubSeq(sorted, k + 1, Len(sorted))

RECURSIVE SortByScore(_)
SortByScore(s) ==
    IF Len(s) <= 1 THEN s
    ELSE InsertByScore(SortByScore(SubSeq(s, 1, Len(s) - 1)), s[Len(s)])

\* matches.push(matchResult) if matchResult.score >= minScore
pushIfAtLeast(matchResult, least) ==
    IF atLeast(matchResult.score, least.num, least.den)
    THEN <<matchResult>> ELSE <<>>

\* the nested loops of findMatchingEvents over the pairs from (i, j) on
RECURSIVE matchesFrom(_, _, _, _, _)
matchesFrom(sourceEvents, targetEvents, i, j, least) ==
    IF i > Len(sourceEvents) THEN <<>>
    ELSE IF j > Len(targetEvents)
    THEN matchesFrom(sourceEvents, targetEvents, i + 1, 1, least)
    ELSE pushIfAtLeast(calculateMatch(sourceEvents[i], targetEvents[j]), least)
         \o matchesFrom(sourceEvents, targetEvents, i, j + 1, least)

\* the two event queries of findMatchingEvents and compareCalendars
sourceEventsOf(prm) == listAllEvents({prm.sourceProvider}, 0).events
targetEventsOf(prm) == listAllEvents({prm.targetProvider}, 0).events

\* SyncService.findMatchingEvents
findMatchingEvents(prm) ==
    SortByScore(matchesFrom(sourceEventsOf(prm), targetEventsOf(prm), 1, 1,
                            minScore(prm.minConfidence)))

\* the update of bestMatch in compareCalendars: bestMatch is <<>> for null
betterMatch(bestMatch, matchResult) ==
    IF /\ atLeast(matchResult.score, 1, 2)
       /\ (bestMatch = <<>> \/ greaterThan(matchResult.score, bestMatch[1].score))
    THEN <<matchResult>> ELSE bestMatch

\* the inner loop of compareCalendars
RECURSIVE bestMatchFrom(_, _, _, _, _)
bestMatchFrom(sourceEvent, targetEvents, j, matchedTargetIds, bestMatch) ==
    IF j > Len(targetEvents) THEN bestMatch
    ELSE IF targetEvents[j].id \in matchedTargetIds
    THEN bestMatchFrom(sourceEvent, targetEvents, j + 1, matchedTargetIds, bestMatch)
    ELSE bestMatchFrom(sourceEvent, targetEvents, j + 1, matchedTargetIds,
             betterMatch(bestMatch, calculateMatch(sourceEvent, targetEvents[j])))

\* if (bestMatch) { matches.push; matchedSourceIds.add; matchedTargetIds.add }
recordMatch(acc, sourceEvent, bestMatch) ==
    IF bestMatch # <<>>
    THEN [matches |-> Append(acc.matches, bestMatch[1]),
          matchedSourceIds |-> acc.matchedSourceIds \cup {sourceEvent.id},
          matchedTargetIds |-> acc.matchedTargetIds \cup {bestMatch[1].targetEvent.id}]
    ELSE acc

\* the outer loop of compareCalendars
RECURSIVE pairFrom(_, _, _, _)
pairFrom(sourceEvents, targetEvents, i, acc) ==
    IF i > Len(sourceEvents) THEN acc
    ELSE pairFrom(sourceEvents, targetEvents, i + 1,
             recordMatch(acc, sourceEvents[i],
                 bestMatchFrom(sourceEvents[i], targetEvents, 1,
                               acc.matchedTargetIds, <<>>)))

\* Array.prototype.filter(e => !ids.has(e.id))
RECURSIVE withoutIds(_, _)
withoutIds(events, ids) ==
    IF events = <<>> THEN <<>>
    ELSE (IF Head(events).id \in ids THEN <<>> ELSE <<Head(events)>>)
         \o withoutIds(Tail(events), ids)

\* the CalendarComparison compareCalendars returns
calendarComparison(prm, sourceEvents, targetEvents, matches, sourceOnly, targetOnly) ==
    [sourceProvider |-> prm.sourceProvider,
     targetProvider |-> prm.targetProvider,
     matches |-> matches,
     sourceOnly |-> sourceOnly,
     targetOnly |-> targetOnly,
     statistics |-> [totalSourceEvents |-> Len(sourceEvents),
                     totalTargetEvents |-> Len(targetEvents),
                     matchedCount |-> Len(matches),
                     sourceOnlyCount |-> Len(sourceOnly),
                     targetOnlyCount |-> Len(targetOnly)]]

\* the matching and the unmatched events of compareCalendars
comparisonOf(prm, sourceEvents, targetEvents, paired) ==
    calendarComparison(prm, sourceEvents, targetEvents, paired.matches,
                       withoutIds(sourceEvents, paired.matchedSourceIds),
                       withoutIds(targetEvents, paired.matchedTargetIds))

\* the body of compareCalendars, given the events of the two queries
compareEvents(prm, sourceEvents, targetEvents) ==
    comparisonOf(prm, sourceEvents, targetEvents,
                 pairFrom(sourceEvents, targetEvents, 1,
                          [matches |-> <<>>, matchedSourceIds |-> {},
                           matchedTargetIds |-> {}]))

\* mutant: the ids claimed in the previous comparison are still claimed
compareCalendarsKeepingIds(prm) ==
    compareEvents(prm, sourceEventsOf(prm),
        withoutIds(targetEventsOf(prm),
            IF result.status = "ok" /\ params.op = "compareCalendars"
            THEN {result.value.matches[i].targetEvent.id :
                     i \in 1..Len(result.value.matches)}
            ELSE {}))

\* SyncService.compareCalendars
compareCalendars(prm) ==
    compareEvents(prm, sourceEventsOf(prm), targetEventsOf(prm))

FindMatchingEvents(prm) ==
    /\ pc = "idle"
    /\ prm.op = "findMatchingEvents"
    /\ params' = prm
    /\ result' = [status |-> "ok", value |-> findMatchingEvents(prm)]
    /\ pc' = "done"
    /\ UNCHANGED <<connected, outcome, listResp, fbResp, cursor, busySlots,
                   iterations, calls>>

CompareCalendars(prm) ==
    /\ pc = "idle"
    /\ prm.op = "compareCalendars"
    /\ params' = prm
    /\ result' = [status |-> "ok", value |-> compareCalendars(prm)]
    /\ pc' = "done"
    /\ UNCHANGED <<connected, outcome, listResp, fbResp, cursor, busySlots,
                   iterations, calls>>

-----------------------------------------------------------------------------
(* The synchronizer's specification *)

Subjects == {<<"a", "b">>, <<"A", "b", " ">>, <<"b">>}
Locations == {<<>>, <<"a">>}
ICalUIds == {"", "u1"}
SyncStarts == {0, 1, 6}
SyncDuration == 60

SyncEventsOf(p) ==
    {[id |-> "e1", provider |-> providerType(p), subject |-> sj, start |-> st,
      end |-> st + SyncDuration, location |-> lo, isAllDay |-> FALSE,
      iCalUId |-> u, showAs |-> "busy"] :
        sj \in Subjects, st \in SyncStarts, lo \in Locations, u \in ICalUIds}

SyncParams ==
    {[op |-> "findMatchingEvents", sourceProvider |-> sp, targetProvider |-> tp,
      minConfidence |-> c] :
        sp \in {"google", "microsoft"}, tp \in {"google", "microsoft"},
        c \in {"", "high", "medium"}}
    \cup {[op |-> "compareCalendars", sourceProvider |-> sp, targetProvider |-> tp] :
            sp \in {"google", "microsoft"}, tp \in {"google", "microsoft"}}

InitSync ==
    /\ connected = [p \in Providers |-> TRUE]
    /\ outcome \in [Providers -> {"ok", "fail"}]
    /\ \E a \in SeqUpTo1(SyncEventsOf("google-1")),
          b \in SeqUpTo1(SyncEventsOf("microsoft-1")) :
            listResp = [p \in Providers |-> IF p = "google-1" THEN a ELSE b]
    /\ fbResp = [p \in Providers |-> <<>>]
    /\ pc = "idle"
    /\ params = NoParams
    /\ cursor = 0
    /\ busySlots = <<>>
    /\ iterations = 0
    /\ calls = [p \in Providers |-> "idle"]
    /\ result = NoResult

NextSync ==
    \/ \E prm \in SyncParams : FindMatchingEvents(prm)
    \/ \E prm \in SyncParams : CompareCalendars(prm)

SpecSync == InitSync /\ [][NextSync]_vars

-----------------------------------------------------------------------------
(* Properties of the synchronizer *)

\* a provider queried for the source or the target events threw
SyncQueryFailed ==
    \E p \in Providers :
        /\ connected[p]
        /\ providerType(p) \in {params.sourceProvider, params.targetProvider}
        /\ outcome[p] = "fail"

\* C9: if the event query of the source provider or of the target provider
\* fails, findMatchingEvents and compareCalendars fail as a whole and return no
\* matches, sourceOnly or targetOnly.
C9_SyncFailsOnQueryFailure ==
    (pc = "done" /\ SyncQueryFailed) => result.status = "error"

-----------------------------------------------------------------------------
(* The interval utilities and mergeBusySlots as pure functions *)

MaxSlots == 2

\* the sequences over S of length 0 to MaxSlots
SeqUpTo(S) == UNION {[1..n -> S] : n \in 0..MaxSlots}

\* the list of busy slots handed to the function
slotsGiven == fbResp["google-1"]

\* busySlots.map(slot => createInterval(slot.start, slot.end))
intervalsOf(slots) ==
    [i \in 1..Len(slots) |-> createInterval(slots[i].start, slots[i].end)]

MergeIntervals ==
    /\ pc = "idle"
    /\ params' = [op |-> "mergeIntervals"]
    /\ result' = [status |-> "ok", value |-> mergeIntervals(intervalsOf(slotsGiven))]
    /\ pc' = "done"
    /\ UNCHANGED <<connected, outcome, listResp, fbResp, cursor, busySlots,
                   iterations, calls>>

FindGaps(rangeStart, rangeEnd) ==
    /\ pc = "idle"
    /\ params' = [op |-> "findGaps", rangeStart |-> rangeStart, rangeEnd |-> rangeEnd]
    /\ result' = [status |-> "ok",
                  value |-> findGaps(intervalsOf(slotsGiven), rangeStart, rangeEnd)]
    /\ pc' = "done"
    /\ UNCHANGED <<connected, outcome, listResp, fbResp, cursor, busySlots,
                   iterations, calls>>

MergeBusySlots ==
    /\ pc = "idle"
    /\ params' = [op |-> "mergeBusySlots"]
    /\ result' = [status |-> "ok", value |-> mergeBusySlots(slotsGiven)]
    /\ pc' = "done"
    /\ UNCHANGED <<connected, outcome, listResp, fbResp, cursor, busySlots,
                   iterations, calls>>

GapRanges == {<<0, MaxTick>>, <<1, MaxTick - 1>>}

InitIntervals ==
    /\ connected = [p \in Providers |-> TRUE]
    /\ outcome = [p \in Providers |-> "ok"]
    /\ listResp = [p \in Providers |-> <<>>]
    /\ \E given \in SeqUpTo(BusySlotValues) :
          fbResp = [p \in Providers |-> IF p = "google-1" THEN given ELSE <<>>]
    /\ pc = "idle"
    /\ params = NoParams
    /\ cursor = 0
    /\ busySlots = <<>>
    /\ iterations = 0
    /\ calls = [p \in Providers |-> "idle"]
    /\ result = NoResult

NextIntervals ==
    \/ MergeIntervals
    \/ \E r \in GapRanges : FindGaps(r[1], r[2])
    \/ MergeBusySlots

SpecIntervals == InitIntervals /\ [][NextIntervals]_vars

-----------------------------------------------------------------------------
(* Properties of the interval utilities *)

\* the ticks an interval covers
TicksOf(iv) == iv.start..(iv.end - 1)

\* C11: for any range R and any list B of valid intervals, the gaps returned by
\* findGaps(B, R) together with the intervals of B clipped to R cover R
\* exactly: every gap lies inside R, every tick of R is in a gap or in an
\* interval of B and never in both, and no tick is in two gaps.
C11_GapsPartitionRange ==
    (pc = "done" /\ params.op = "findGaps") =>
        LET gaps == result.value
            inGap(t) == \E i \in 1..Len(gaps) : t \in TicksOf(gaps[i])
            inBusy(t) == \E b \in Range(slotsGiven) : t \in TicksOf(b)
        IN  /\ \A i \in 1..Len(gaps) :
                  params.rangeStart <= gaps[i].start /\ gaps[i].end <= params.rangeEnd
            /\ \A t \in params.rangeStart..(params.rangeEnd - 1) : inGap(t) # inBusy(t)
            /\ \A i, j \in 1..Len(gaps) :
                  i # j => TicksOf(gaps[i]) \cap TicksOf(gaps[j]) = {}

\* the two intervals overlap or touch
overlapOrTouch(a, b) == a.start <= b.end /\ b.start <= a.end

\* C12: mergeIntervals is idempotent, mergeIntervals(mergeIntervals(X)) =
\* mergeIntervals(X) for any list X of valid intervals; equivalently, no two
\* intervals of mergeIntervals(X) overlap or touch.
C12_MergeIdempotent ==
    (pc = "done" /\ params.op = "mergeIntervals") =>
        /\ mergeIntervals(result.value) = result.value
        /\ \A i, j \in 1..Len(result.value) :
              i # j => ~overlapOrTouch(result.value[i], result.value[j])

\* the slots given that were coalesced into the merged slot u, by their
\* position in the list given
coalescedInto(u) ==
    {i \in 1..Len(slotsGiven) :
        u.start <= slotsGiven[i].start /\ slotsGiven[i].start <= u.end}

\* the slot merged last: the last one, in the stable order by start
lastCoalesced(u) ==
    CHOOSE i \in coalescedInto(u) :
        \A j \in coalescedInto(u) :
            \/ slotsGiven[j].start < slotsGiven[i].start
            \/ (slotsGiven[j].start = slotsGiven[i].start /\ j <= i)

\* C13: a merged slot has status 'busy' if and only if at least one of the
\* slots coalesced into it has status 'busy'; otherwise it carries the status
\* of the last slot merged into it, the one with the latest start (the later
\* one in the list among those of equal start).
C13_MergedStatus ==
    (pc = "done" /\ params.op = "mergeBusySlots") =>
        \A u \in Range(result.value) :
            /\ coalescedInto(u) # {}
            /\ u.status = "busy" <=>
                  (\E i \in coalescedInto(u) : slotsGiven[i].status = "busy")
            /\ u.status # "busy" => u.status = slotsGiven[lastCoalesced(u)].status

\* a busy slot followed by an overlapping tentative one gives one busy slot
C13_Witness ==
    /\ pc = "done"
    /\ params.op = "mergeBusySlots"
    /\ Len(slotsGiven) = 2
    /\ Len(result.value) = 1
    /\ slotsGiven[1].status = "busy"
    /\ slotsGiven[2].status = "tentative"
    /\ slotsGiven[1].start < slotsGiven[2].start
    /\ result.value[1].status = "busy"

-----------------------------------------------------------------------------
(* The synchronizer over lists of several events *)

MaxEvents == 2

\* the events a provider may hold in the compared range; events of several
\* calendars of one account are listed together, and the same id may occur on
\* two of them (mapGoogleEvent and mapGraphEvent copy the backend's id)
PairEventsOf(p) ==
    {[id |-> i, provider |-> providerType(p), subject |-> sj, start |-> st,
      end |-> st + SyncDuration, location |-> <<>>, isAllDay |-> FALSE,
      iCalUId |-> "", showAs |-> "busy"] :
        i \in {"e1", "e2"},
        sj \in IF p = "google-1" THEN {<<"a">>, <<"b">>} ELSE {<<"a">>},
        st \in IF p = "google-1" THEN {0} ELSE {0, 10}}

\* the lists a provider's listEvents may return: sorted by start time
EventLists(p) ==
    {l \in UNION {[1..n -> PairEventsOf(p)] : n \in 0..MaxEvents} :
        \A i \in 1..(Len(l) - 1) : l[i].start <= l[i + 1].start}

PairParams ==
    {[op |-> "findMatchingEvents", sourceProvider |-> "google",
      targetProvider |-> "microsoft", minConfidence |-> c] :
        c \in {"", "high", "medium", "low"}}
    \cup {[op |-> "compareCalendars", sourceProvider |-> "google",
           targetProvider |-> "microsoft"],
          [op |-> "compareCalendars", sourceProvider |-> "microsoft",
           targetProvider |-> "google"]}

\* the caller has its answer; the service takes the next call
Return ==
    /\ pc = "done"
    /\ pc' = "idle"
    /\ UNCHANGED <<connected, outcome, listResp, fbResp, params, cursor,
                   busySlots, iterations, calls, result>>

InitPairing ==
    /\ connected = [p \in Providers |-> TRUE]
    /\ outcome = [p \in Providers |-> "ok"]
    /\ listResp \in [Providers -> UNION {EventLists(p) : p \in Providers}]
    /\ \A p \in Providers : listResp[p] \in EventLists(p)
    /\ fbResp = [p \in Providers |-> <<>>]
    /\ pc = "idle"
    /\ params = NoParams
    /\ cursor = 0
    /\ busySlots = <<>>
    /\ iterations = 0
    /\ calls = [p \in Providers |-> "idle"]
    /\ result = NoResult

NextPairing ==
    \/ \E prm \in PairParams : FindMatchingEvents(prm)
    \/ \E prm \in PairParams : CompareCalendars(prm)
    \/ Return

SpecPairing == InitPairing /\ [][NextPairing]_vars

-----------------------------------------------------------------------------
(* Properties of the matching *)

Compared == pc = "done" /\ params.op = "compareCalendars"

\* the lists the two queries of the call returned
SourceList == sourceEventsOf(params)
TargetList == targetEventsOf(params)

\* how often x occurs in the sequence s
Count(s, x) == Cardinality({i \in 1..Len(s) : s[i] = x})

sourcesOf(matches) == [i \in 1..Len(matches) |-> matches[i].sourceEvent]
targetsOf(matches) == [i \in 1..Len(matches) |-> matches[i].targetEvent]

\* C18: in every CalendarComparison each source event is either the
\* sourceEvent of exactly one match or a member of sourceOnly, never both and
\* never neither, and likewise each target event with targetOnly; hence
\* matchedCount + sourceOnlyCount = totalSourceEvents and matchedCount +
\* targetOnlyCount = totalTargetEvents.  (An event listed n times is counted n
\* times on either side.)
C18_ComparisonPartitions ==
    Compared =>
        LET c == result.value
        IN  /\ \A e \in Range(SourceList) :
                  Count(SourceList, e)
                      = Count(sourcesOf(c.matches), e) + Count(c.sourceOnly, e)
            /\ \A e \in Range(TargetList) :
                  Count(TargetList, e)
                      = Count(targetsOf(c.matches), e) + Count(c.targetOnly, e)
            /\ c.statistics.matchedCount + c.statistics.sourceOnlyCount
                  = c.statistics.totalSourceEvents
            /\ c.statistics.matchedCount + c.statistics.targetOnlyCount
                  = c.statistics.totalTargetEvents

\* the score of a source event against a target event
scoreOf(s, t) == calculateMatch(s, t).score

\* the target positions a source event may be matched to when the positions in
\* claimed are taken: those left that score at least 0.5 and no less than any
\* other such position
bestUnclaimed(s, claimed) ==
    LET open == {j \in (1..Len(TargetList)) \ claimed :
                    atLeast(scoreOf(s, TargetList[j]), 1, 2)}
    IN  {j \in open :
            \A k \in open : ~greaterThan(scoreOf(s, TargetList[k]),
                                         scoreOf(s, TargetList[j]))}

\* a[i] is the target position source event i is matched to, 0 for none: each
\* source event, in list order, takes a best target not taken before it
GreedyAssignment(a) ==
    \A i \in 1..Len(SourceList) :
        LET claimed == {a[h] : h \in 1..(i - 1)} \ {0}
        IN  IF bestUnclaimed(SourceList[i], claimed) = {}
            THEN a[i] = 0
            ELSE a[i] \in bestUnclaimed(SourceList[i], claimed)

\* the matches of an assignment, in the order of the source list
matchesOfAssignment(a) ==
    LET matched == SelectSeq([i \in 1..Len(SourceList) |-> i], LAMBDA i : a[i] # 0)
    IN  [k \in 1..Len(matched) |->
            calculateMatch(SourceList[matched[k]], TargetList[a[matched[k]]])]

\* C17: compareCalendars handles source events in list order and matches each
\* one to the highest-scoring target event not already claimed by an earlier
\* source event, provided that score is >= 0.5; a target once claimed is never
\* reassigned to a later source event, even one that scores higher against it,
\* and no target event appears in more than one match.
C17_GreedyInListOrder ==
    Compared =>
        \E a \in [1..Len(SourceList) -> 0..Len(TargetList)] :
            /\ GreedyAssignment(a)
            /\ result.value.matches = matchesOfAssignment(a)

\* a step that runs compareCalendars again on the request just answered
ComparedAgain ==
    /\ pc = "idle" /\ pc' = "done"
    /\ params.op = "compareCalendars" /\ result.status = "ok"
    /\ params' = params

Found == pc = "done" /\ params.op = "findMatchingEvents"

\* the floor of minConfidence, as a fraction
FloorNum == IF params.minConfidence = "high" THEN 4
            ELSE IF params.minConfidence = "medium" THEN 1 ELSE 3
FloorDen == IF params.minConfidence = "high" THEN 5
            ELSE IF params.minConfidence = "medium" THEN 2 ELSE 10

\* how often the pair (s, t) is among the matches
CountPair(matches, s, t) ==
    Cardinality({k \in 1..Len(matches) :
                    matches[k].sourceEvent = s /\ matches[k].targetEvent = t})

\* C20: findMatchingEvents returns exactly the (source, target) pairs of the
\* cross product whose score is at least the floor of minConfidence (0.8 for
\* high, 0.5 for medium, 0.3 for low, low when omitted), in non-increasing
\* order of score; with minConfidence = 'high' no match with score < 0.8 is
\* returned.  (A pair listed n times in the cross product is returned n times.)
C20_MatchesAboveFloor ==
    Found =>
        LET matches == result.value
        IN  /\ \A k \in 1..Len(matches) :
                  /\ matches[k].sourceEvent \in Range(SourceList)
                  /\ matches[k].targetEvent \in Range(TargetList)
                  /\ matches[k] = calculateMatch(matches[k].sourceEvent,
                                                 matches[k].targetEvent)
                  /\ params.minConfidence = "high" =>
                        atLeast(matches[k].score, 4, 5)
            /\ \A s \in Range(SourceList), t \in Range(TargetList) :
                  CountPair(matches, s, t) =
                      IF atLeast(scoreOf(s, t), FloorNum, FloorDen)
                      THEN Count(SourceList, s) * Count(TargetList, t)
                      ELSE 0
            /\ \A k \in 1..(Len(matches) - 1) :
                  ~greaterThan(matches[k + 1].score, matches[k].score)

\* with 'high', a pair of the cross product is returned and another, scoring
\* less than 0.8, is left out
C20_Witness ==
    /\ Found
    /\ params.minConfidence = "high"
    /\ result.value # <<>>
    /\ \E s \in Range(SourceList), t \in Range(TargetList) :
          ~atLeast(scoreOf(s, t), 4, 5)


-----------------------------------------------------------------------------
(* Properties of calculateMatch *)

\* the pairs of events calculateMatch may be handed: any two listed events
ListedEvents == UNION {Range(listResp[p]) : p \in Providers}

\* the score m carries is in [0,1] and its confidence is the band of the score
ScoredInBand(m) ==
    /\ m.score.den > 0
    /\ 0 <= m.score.num
    /\ m.score.num <= m.score.den
    /\ m.confidence \in {"high", "medium", "low"}
    /\ m.confidence = "high" <=> atLeast(m.score, 4, 5)
    /\ m.confidence = "medium" <=> (atLeast(m.score, 1, 2) /\ ~atLeast(m.score, 4, 5))
    /\ m.confidence = "low" <=> ~atLeast(m.score, 1, 2)

\* C21: for any two events calculateMatch returns a score within [0,1], and the
\* confidence is 'high' if and only if score >= 0.8, 'medium' if and only if
\* 0.5 <= score < 0.8, and 'low' if and only if score < 0.5.
C21_ScoreInBand ==
    /\ \A s \in ListedEvents, t \in ListedEvents : ScoredInBand(calculateMatch(s, t))
    /\ (pc = "done" /\ params.op = "findMatchingEvents") =>
          \A k \in 1..Len(result.value) : ScoredInBand(result.value[k])

\* a match of low confidence has been returned
C21_Witness ==
    /\ pc = "done"
    /\ params.op = "findMatchingEvents"
    /\ params.sourceProvider # params.targetProvider
    /\ result.value # <<>>
    /\ result.value[1].confidence = "low"


\* totalWeight: the sum of the weights of the factors counted
RECURSIVE totalWeightOf(_)
totalWeightOf(factors) ==
    IF factors = <<>> THEN 0 ELSE Head(factors).weight + totalWeightOf(Tail(factors))

factorNames(m) == {m.matchFactors[i].factor : i \in 1..Len(m.matchFactors)}

\* the denominator of m's score is the weight of the factors that apply
DenominatorRight(s, t, m) ==
    /\ "location" \in factorNames(m) <=> (s.location # <<>> \/ t.location # <<>>)
    /\ "iCalUId" \in factorNames(m) <=> (s.iCalUId # "" /\ t.iCalUId # "")
    /\ totalWeightOf(m.matchFactors)
          = 85 + (IF s.location # <<>> \/ t.location # <<>> THEN 10 ELSE 0)
               + (IF s.iCalUId # "" /\ t.iCalUId # "" THEN 5 ELSE 0)
    /\ m.score.den % totalWeightOf(m.matchFactors) = 0

\* identical subject, start, end and all-day flag, no location on either side
SameButForUId(s, t) ==
    /\ s.subject = t.subject /\ s.start = t.start /\ s.end = t.end
    /\ s.isAllDay = t.isAllDay
    /\ s.location = <<>> /\ t.location = <<>>

\* score exactly 1.0 over denominator 85, confidence 'high'
FullScoreOver85(m) ==
    /\ m.score.num = m.score.den
    /\ totalWeightOf(m.matchFactors) = 85
    /\ m.confidence = "high"

\* C22 as stated: the location factor enters the denominator iff at least one
\* event has a location, the iCalUId factor iff both carry an iCalUId; so two
\* events with identical subject, start, end and all-day flag and no location
\* score exactly 1.0 over denominator 85, with confidence 'high'.
C22_FullScoreOver85Always ==
    \A s \in ListedEvents, t \in ListedEvents :
        /\ DenominatorRight(s, t, calculateMatch(s, t))
        /\ SameButForUId(s, t) => FullScoreOver85(calculateMatch(s, t))

\* C22: the location factor (weight 10) enters the denominator of the score if
\* and only if at least one of the two events has a location, and the iCalUId
\* factor (weight 5) if and only if both events carry an iCalUId; so two events
\* with identical subject, start, end and all-day flag, no location on either
\* side and not both carrying an iCalUId score exactly 1.0 over denominator
\* 85, with confidence 'high'.
C22_FullScoreOver85 ==
    \A s \in ListedEvents, t \in ListedEvents :
        /\ DenominatorRight(s, t, calculateMatch(s, t))
        /\ (SameButForUId(s, t) /\ ~(s.iCalUId # "" /\ t.iCalUId # ""))
              => FullScoreOver85(calculateMatch(s, t))

\* such a pair has been matched, one of the two events carrying a UID
C22_Witness ==
    /\ pc = "done"
    /\ params.op = "findMatchingEvents"
    /\ params.sourceProvider # params.targetProvider
    /\ Len(result.value) = 1
    /\ SameButForUId(result.value[1].sourceEvent, result.value[1].targetEvent)
    /\ result.value[1].sourceEvent.iCalUId # ""
    /\ result.value[1].targetEvent.iCalUId = ""
    /\ FullScoreOver85(result.value[1])


-----------------------------------------------------------------------------
(* Copying an event: SyncService.copyEvent *)

\* a promise's settlement
Fulfilled(v) == [status |-> "fulfilled", value |-> v]
Rejected(m) == [status |-> "rejected", message |-> m]

\* CalendarService.getProviderByType: the first connected provider of the
\* type, <<>> when it throws PROVIDER_NOT_FOUND
getProviderByType(type) ==
    LET ofType == SelectIds(getConnected,
                            {p \in DOMAIN connected : providerType(p) = type})
    IN  IF ofType = <<>> THEN <<>> ELSE <<ofType[1]>>

\* the positions of the events with the id in a provider's calendar
heldAt(p, eventId) == {i \in 1..Len(listResp[p]) : listResp[p][i].id = eventId}

\* provider.getEvent: the backend throws, or has no such event, or returns it
providerGetEvent(p, eventId) ==
    IF outcome[p] = "fail" THEN Rejected("getEvent failed")
    ELSE IF heldAt(p, eventId) = {} THEN Rejected("Event not found")
    ELSE Fulfilled(listResp[p][CHOOSE i \in heldAt(p, eventId) :
                                   \A j \in heldAt(p, eventId) : i <= j])

\* CalendarService.getEvent
getEvent(eventId, type) ==
    IF getProviderByType(type) = <<>>
    THEN Rejected("No connected provider found")
    ELSE providerGetEvent(getProviderByType(type)[1], eventId)

\* the createParams copyEvent builds; attendees = <<>> stands for undefined
createParamsOf(sourceEvent, includeAttendees) ==
    [subject |-> sourceEvent.subject,
     startTime |-> sourceEvent.start,
     endTime |-> sourceEvent.end,
     attendees |-> IF includeAttendees THEN sourceEvent.attendees ELSE <<>>,
     sendInvites |-> FALSE]

\* the request a provider's createEvent sends to its backend: Google's carries
\* sendUpdates, Graph's carries the event alone
createRequest(p, event) ==
    IF providerType(p) = "google"
    THEN [attendees |-> event.attendees,
          sendUpdates |-> IF event.sendInvites = FALSE THEN "none" ELSE "all"]
    ELSE [attendees |-> event.attendees, sendUpdates |-> "unset"]

\* the backend invites the attendees of a created event unless the request
\* says sendUpdates = none
invitationsSent(request) ==
    request.attendees # <<>> /\ request.sendUpdates # "none"

\* the event the backend created, mapped back
createdEvent(p, event) ==
    [id |-> "new", provider |-> providerType(p), subject |-> event.subject,
     start |-> event.startTime, end |-> event.endTime,
     attendees |-> event.attendees]

\* CalendarService.createEvent
createEvent(event, type) ==
    IF getProviderByType(type) = <<>>
    THEN Rejected("No connected provider found")
    ELSE IF outcome[getProviderByType(type)[1]] = "fail"
    THEN Rejected("createEvent failed")
    ELSE Fulfilled(createdEvent(getProviderByType(type)[1], event))

\* the result of the catch block
copyFailure(prm, message) ==
    [success |-> FALSE,
     sourceEvent |-> [id |-> prm.sourceEventId, provider |-> prm.sourceProvider,
                      subject |-> <<"U", "n", "k", "n", "o", "w", "n">>],
     copiedEvent |-> <<>>,
     error |-> <<message>>]

\* the try block after the source event was read
copyOf(prm, sourceEvent, created) ==
    IF created.status = "rejected"
    THEN Rejected(created.message)
    ELSE Fulfilled([success |-> TRUE, sourceEvent |-> sourceEvent,
                    copiedEvent |-> <<created.value>>, error |-> <<>>])

\* the try block of copyEvent
tryCopy(prm, source) ==
    IF source.status = "rejected" THEN source
    ELSE copyOf(prm, source.value,
                createEvent(createParamsOf(source.value, prm.includeAttendees),
                            prm.targetProvider))

\* try { ... } catch (error) { return { success: false, ... } }
caught(prm, tried) ==
    IF tried.status = "rejected"
    THEN Fulfilled(copyFailure(prm, tried.message))
    ELSE tried

\* mutant: the failure is not caught
copyEventUncaught(prm) ==
    tryCopy(prm, getEvent(prm.sourceEventId, prm.sourceProvider))

\* SyncService.copyEvent
copyEvent(prm) ==
    caught(prm, tryCopy(prm, getEvent(prm.sourceEventId, prm.sourceProvider)))

\* what the target backend did for the copy: nothing, created the event
\* silently, or created it and invited its attendees
backendEffect(prm, copied) ==
    IF copied.status = "rejected" \/ ~copied.value.success THEN "idle"
    ELSE IF invitationsSent(createRequest(getProviderByType(prm.targetProvider)[1],
                createParamsOf(copied.value.sourceEvent, prm.includeAttendees)))
    THEN "invited" ELSE "created"

copyTarget(prm, copied) ==
    IF copied.status = "rejected" \/ ~copied.value.success THEN {}
    ELSE {getProviderByType(prm.targetProvider)[1]}

CopyEvent(prm) ==
    /\ pc = "idle"
    /\ params' = prm
    /\ result' = copyEvent(prm)
    /\ calls' = [p \in Providers |->
                    IF p \in copyTarget(prm, copyEvent(prm))
                    THEN backendEffect(prm, copyEvent(prm)) ELSE calls[p]]
    /\ pc' = "done"
    /\ UNCHANGED <<connected, outcome, listResp, fbResp, cursor, busySlots,
                   iterations>>

Attendees == {<<>>, <<"x">>}

CopyEventsOf(p) ==
    {[id |-> "e1", provider |-> providerType(p), subject |-> <<"a">>, start |-> 0,
      end |-> SyncDuration, attendees |-> a] : a \in Attendees}

CopyParams ==
    {[op |-> "copyEvent", sourceEventId |-> i, sourceProvider |-> sp,
      targetProvider |-> tp, includeAttendees |-> ia] :
        i \in {"e1", "e9"}, sp \in ProviderTypes, tp \in ProviderTypes,
        ia \in BOOLEAN}

InitCopy ==
    /\ connected \in [Providers -> BOOLEAN]
    /\ outcome \in [Providers -> {"ok", "fail"}]
    /\ \E a \in SeqUpTo1(CopyEventsOf("google-1")),
          b \in SeqUpTo1(CopyEventsOf("microsoft-1")) :
            listResp = [p \in Providers |-> IF p = "google-1" THEN a ELSE b]
    /\ fbResp = [p \in Providers |-> <<>>]
    /\ pc = "idle"
    /\ params = NoParams
    /\ cursor = 0
    /\ busySlots = <<>>
    /\ iterations = 0
    /\ calls = [p \in Providers |-> "idle"]
    /\ result = NoResult

NextCopy == \E prm \in CopyParams : CopyEvent(prm)

SpecCopy == InitCopy /\ [][NextCopy]_vars

\* reading the source event or creating the target event fails
CopyFails ==
    \/ getProviderByType(params.sourceProvider) = <<>>
    \/ getProviderByType(params.targetProvider) = <<>>
    \/ outcome[getProviderByType(params.sourceProvider)[1]] = "fail"
    \/ heldAt(getProviderByType(params.sourceProvider)[1], params.sourceEventId) = {}
    \/ outcome[getProviderByType(params.targetProvider)[1]] = "fail"

\* C23: copyEvent never throws or rejects: if reading the source event or
\* creating the target event fails for any reason (including no connected
\* provider of the requested type), it returns a result with success = false,
\* an error message, and a sourceEvent whose id is the requested sourceEventId.
C23_CopyNeverRejects ==
    pc = "done" =>
        /\ result.status = "fulfilled"
        /\ CopyFails =>
              /\ result.value.success = FALSE
              /\ result.value.error # <<>>
              /\ result.value.sourceEvent.id = params.sourceEventId
              /\ calls = [p \in Providers |-> "idle"]
        /\ ~CopyFails => result.value.success

\* the source event was read and the creation on the target failed
C23_Witness ==
    /\ pc = "done"
    /\ result.status = "fulfilled"
    /\ ~result.value.success
    /\ getProviderByType(params.sourceProvider) # <<>>
    /\ getProviderByType(params.targetProvider) # <<>>
    /\ outcome[getProviderByType(params.sourceProvider)[1]] = "ok"
    /\ heldAt(getProviderByType(params.sourceProvider)[1], params.sourceEventId) # {}
    /\ outcome[getProviderByType(params.targetProvider)[1]] = "fail"

\* C24: a copy never notifies attendees: for every target provider, the
\* creation performed by copyEvent sends no invitation, also when
\* includeAttendees is true and the source event has attendees.
C24_CopyNeverInvites ==
    \A p \in Providers : calls[p] # "invited"


-----------------------------------------------------------------------------
(* The conflict detector over calendars that are queried by range *)

\* the events of a calendar a backend returns for timeMin = from, timeMax = to:
\* those that end after from and start before to
eventsInRange(events, from, to) ==
    SelectSeq(events, LAMBDA e : e.end > from /\ e.start < to)

\* listAllEvents(listParams).events of checkConflicts: here listResp holds the
\* calendars, and each provider answers with the events in the queried range
queriedEvents(prm) ==
    SortByStart(Concat(fulfilledOf(getConnected),
                       [p \in Providers |->
                           eventsInRange(listResp[p], queryStart(prm), queryEnd(prm))]))

\* the while loop of findAlternativeSlot: <<>> for undefined
RECURSIVE alternativeFrom(_, _, _)
alternativeFrom(slots, cur, prm) ==
    IF cur >= searchEnd(prm) THEN <<>>
    ELSE IF firstOverlap(slots, cur, cur + duration(prm)) = 0
    THEN <<[start |-> cur, end |-> cur + duration(prm),
            reason |-> suggestionReason(cur, prm)]>>
    ELSE alternativeFrom(slots,
             cursorAfter(slots, firstOverlap(slots, cur, cur + duration(prm)), prm),
             prm)

\* the ConflictCheckResult, given the events of the query
conflictCheckResult(events, conflicts, prm) ==
    [status |-> "ok",
     hasConflict |-> Len(conflicts) > 0,
     conflicts |-> conflicts,
     suggestion |-> IF Len(conflicts) > 0
                    THEN alternativeFrom(busyTimes(events), prm.startTime, prm)
                    ELSE <<>>]

\* ConflictService.checkConflicts, from the query to the result
checkConflicts(prm) ==
    conflictCheckResult(queriedEvents(prm),
                        detectConflicts(queriedEvents(prm), prm), prm)

\* a first call
CheckCalendars(prm) ==
    /\ pc = "idle"
    /\ params' = prm
    /\ result' = checkConflicts(prm)
    /\ pc' = "done"
    /\ UNCHANGED <<connected, outcome, listResp, fbResp, cursor, busySlots,
                   iterations, calls>>

\* the request of the first call, moved to the suggestion it returned
suggestedRequest ==
    [params EXCEPT !.startTime = result.suggestion[1].start,
                   !.endTime = result.suggestion[1].end]

\* the caller checks the suggested alternative, the calendars unchanged
CheckSuggestion ==
    /\ pc = "done"
    /\ result.suggestion # <<>>
    /\ params' = suggestedRequest
    /\ result' = checkConflicts(suggestedRequest)
    /\ pc' = "rechecked"
    /\ UNCHANGED <<connected, outcome, listResp, fbResp, cursor, busySlots,
                   iterations, calls>>

\* a calendar without the event the request excludes
withoutExcluded(events, prm) ==
    SelectSeq(events, LAMBDA e : ~isExcluded(e, prm))

\* the excluded event is removed from the calendars and the call repeated
CheckWithoutExcluded ==
    /\ pc = "done"
    /\ params.excludeEventId # None
    /\ params.excludeProvider # None
    /\ listResp' = [p \in Providers |-> withoutExcluded(listResp[p], params)]
    /\ result' = conflictCheckResult(
                    SortByStart(Concat(fulfilledOf(getConnected),
                        [p \in Providers |->
                            eventsInRange(withoutExcluded(listResp[p], params),
                                          queryStart(params), queryEnd(params))])),
                    detectConflicts(
                        SortByStart(Concat(fulfilledOf(getConnected),
                            [p \in Providers |->
                                eventsInRange(withoutExcluded(listResp[p], params),
                                              queryStart(params), queryEnd(params))])),
                        params),
                    params)
    /\ pc' = "removed"
    /\ UNCHANGED <<connected, outcome, fbResp, params, cursor, busySlots,
                   iterations, calls>>

InitRecheck ==
    /\ connected = [p \in Providers |-> TRUE]
    /\ outcome = [p \in Providers |-> "ok"]
    /\ listResp \in [Providers -> UNION {SeqUpTo1(EventsOf(p)) : p \in Providers}]
    /\ \A p \in Providers :
          \A i \in 1..Len(listResp[p]) : listResp[p][i] \in EventsOf(p)
    /\ fbResp = [p \in Providers |-> <<>>]
    /\ pc = "idle"
    /\ params = NoParams
    /\ cursor = 0
    /\ busySlots = <<>>
    /\ iterations = 0
    /\ calls = [p \in Providers |-> "idle"]
    /\ result = NoResult

NextRecheck ==
    \/ \E prm \in ConflictParams : CheckCalendars(prm)
    \/ CheckSuggestion
    \/ CheckWithoutExcluded

SpecRecheck == InitRecheck /\ [][NextRecheck]_vars

\* C25: a suggested alternative is really free: with the calendars unchanged,
\* calling checkConflicts again with the suggestion's start and end and the
\* same exclusion parameters returns hasConflict = false, also when the
\* suggestion lies beyond the 60-minute buffer of the first query.
C25_SuggestionIsFree ==
    pc = "rechecked" => ~result.hasConflict

\* C26: the event excluded through excludeEventId and excludeProvider has no
\* influence on the result of checkConflicts: removing that event from the
\* calendars changes neither hasConflict, nor the conflicts list, nor the
\* suggested alternative.
C26_ExcludedHasNoInfluence ==
    [][pc' = "removed" =>
          /\ result'.hasConflict = result.hasConflict
          /\ result'.conflicts = result.conflicts
          /\ result'.suggestion = result.suggestion]_vars


-----------------------------------------------------------------------------
(* Reading back a listed event, with several accounts of one provider type *)

\* a configuration with a Google account and two Exchange accounts
Accounts == {"google-1", "exchange-1", "exchange-2"}

\* the events an account may hold
AccountEventsOf(p) ==
    {[id |-> i, provider |-> providerType(p), subject |-> sj, start |-> 0,
      end |-> SyncDuration, showAs |-> "busy"] :
        i \in {"e1", "e2"}, sj \in {<<"a">>, <<"b">>}}

\* CalendarService.listAllEvents of every connected provider
ListAllEvents ==
    /\ pc = "idle"
    /\ params' = [op |-> "listAllEvents"]
    /\ result' = Fulfilled(listAllEvents({}, 0))
    /\ pc' = "listed"
    /\ UNCHANGED <<connected, outcome, listResp, fbResp, cursor, busySlots,
                   iterations, calls>>

\* CalendarService.getEvent(event.id, event.provider, event.calendarId) for an
\* event of the list just returned
GetListedEvent(i) ==
    /\ pc = "listed"
    /\ i \in 1..Len(result.value.events)
    /\ params' = [op |-> "getEvent", event |-> result.value.events[i]]
    /\ result' = getEvent(result.value.events[i].id, result.value.events[i].provider)
    /\ pc' = "read"
    /\ UNCHANGED <<connected, outcome, listResp, fbResp, cursor, busySlots,
                   iterations, calls>>

InitAccounts ==
    /\ connected \in [Accounts -> BOOLEAN]
    /\ outcome = [p \in Accounts |-> "ok"]
    /\ listResp \in [Accounts -> UNION {SeqUpTo1(AccountEventsOf(p)) : p \in Accounts}]
    /\ \A p \in Accounts : listResp[p] \in SeqUpTo1(AccountEventsOf(p))
    /\ fbResp = [p \in Accounts |-> <<>>]
    /\ pc = "idle"
    /\ params = NoParams
    /\ cursor = 0
    /\ busySlots = <<>>
    /\ iterations = 0
    /\ calls = [p \in Accounts |-> "idle"]
    /\ result = NoResult

NextAccounts ==
    \/ ListAllEvents
    \/ \E i \in 1..Cardinality(Accounts) : GetListedEvent(i)

SpecAccounts == InitAccounts /\ [][NextAccounts]_vars

\* C28: every event returned by listAllEvents can be read again with
\* getEvent(event.id, event.provider, event.calendarId) while the calendars are
\* unchanged, also when several accounts of the same provider type are
\* connected: the request reaches the account that holds the event.
C28_ListedEventIsReadable ==
    pc = "read" =>
        /\ result.status = "fulfilled"
        /\ result.value = params.event


-----------------------------------------------------------------------------
(* Provider connection lifecycle: BaseCalendarProvider and the adapters.     *)
(* In this specification the variables hold one provider object:             *)
(*   connected[p]  its _connected flag                                       *)
(*   listResp[p]   its private fields client, calendarsCache, cacheTimestamp *)
(*   fbResp[p]     the calendars its backend returns                         *)
(*   busySlots     the connect() calls in flight, each at its await          *)
(*   outcome[p]    how the last settled connect or disconnect ended          *)
(*   iterations    Date.now()                                                *)
(*   params        the last call made, result its settlement, calls[p] what  *)
(*                 the last data operation sent to the backend                *)

\* the provider whose lifecycle is followed; the three adapters share the code
LifecycleProviders == {"google-1"}

\* connect() calls that may be in flight at once
MaxConnects == 2

\* the latest value of Date.now()
MaxNow == 3

\* CACHE_TTL_MS, in the unit of the clock
CACHE_TTL_MS == 2

DataOperations ==
    {"listCalendars", "listEvents", "getEvent", "createEvent", "updateEvent",
     "deleteEvent", "getFreeBusy", "respondToEvent"}

PROVIDER_NOT_CONFIGURED == "PROVIDER_NOT_CONFIGURED"
INTERNAL_ERROR == "INTERNAL_ERROR"

\* mutant: the operation does not check the connection
ensureConnectedSkipped(p) == TRUE

\* BaseCalendarProvider.ensureConnected: TRUE when it does not throw
ensureConnected(p) == connected[p]

\* the sequence without its i-th element
RemoveAt(seq, i) == SubSeq(seq, 1, i - 1) \o SubSeq(seq, i + 1, Len(seq))

\* listCalendars' cache test
cacheIsFresh(fields, now) ==
    fields.calendarsCache # <<>> /\ now - fields.cacheTimestamp < CACHE_TTL_MS

\* what executeWithErrorHandling(operation, fn) does for a data operation of
\* provider p when the backend answers a request with success (backendOk) or
\* an error: the settlement, the request sent, and the provider's fields after
executeWithErrorHandling(p, op, backendOk) ==
    LET fields == listResp[p] IN
    IF ~ensureConnected(p)
    THEN [settled |-> Rejected(PROVIDER_NOT_CONFIGURED), sent |-> "none",
          fields |-> fields]
    ELSE IF op = "listCalendars" /\ cacheIsFresh(fields, iterations)
    THEN [settled |-> Fulfilled(fields.calendarsCache[1]), sent |-> "none",
          fields |-> fields]
    ELSE IF ~fields.client
    THEN [settled |-> Rejected(PROVIDER_NOT_CONFIGURED), sent |-> "none",
          fields |-> fields]
    ELSE IF ~backendOk
    THEN [settled |-> Rejected(INTERNAL_ERROR), sent |-> op, fields |-> fields]
    ELSE IF op = "listCalendars"
    THEN [settled |-> Fulfilled(fbResp[p]), sent |-> op,
          fields |-> [fields EXCEPT !.calendarsCache = <<fbResp[p]>>,
                                    !.cacheTimestamp = iterations]]
    ELSE [settled |-> Fulfilled(<<>>), sent |-> op, fields |-> fields]

\* a data operation of the provider, from its call to its settlement
Operation(p, op, backendOk) ==
    /\ params' = [op |-> op, provider |-> p]
    /\ result' = executeWithErrorHandling(p, op, backendOk).settled
    /\ calls' = [calls EXCEPT ![p] = executeWithErrorHandling(p, op, backendOk).sent]
    /\ listResp' = [listResp EXCEPT ![p] = executeWithErrorHandling(p, op, backendOk).fields]
    /\ UNCHANGED <<connected, outcome, fbResp, pc, cursor, busySlots, iterations>>

\* connect() is called: it runs to its first await, ensureValidCredentials
ConnectCall(p) ==
    /\ Len(busySlots) < MaxConnects
    /\ busySlots' = Append(busySlots, "credentials")
    /\ params' = [op |-> "connect", provider |-> p]
    /\ UNCHANGED <<connected, outcome, listResp, fbResp, pc, cursor, iterations,
                   calls, result>>

\* ensureValidCredentials of the i-th connect in flight settles: the client is
\* created and the test listCalendars is awaited, or the catch block runs
ConnectCredentials(p, i, valid) ==
    /\ i \in 1..Len(busySlots)
    /\ busySlots[i] = "credentials"
    /\ params' = [op |-> "connect", provider |-> p]
    /\ IF valid
       THEN /\ listResp' = [listResp EXCEPT ![p].client = TRUE]
            /\ busySlots' = [busySlots EXCEPT ![i] = "listCalendars"]
            /\ UNCHANGED <<connected, outcome>>
       ELSE /\ connected' = [connected EXCEPT ![p] = FALSE]
            /\ outcome' = [outcome EXCEPT ![p] = "connect failed"]
            /\ busySlots' = RemoveAt(busySlots, i)
            /\ UNCHANGED listResp
    /\ UNCHANGED <<fbResp, pc, cursor, iterations, calls, result>>

\* the test listCalendars of the i-th connect in flight settles
ConnectTested(p, i, backendOk) ==
    /\ i \in 1..Len(busySlots)
    /\ busySlots[i] = "listCalendars"
    /\ params' = [op |-> "connect", provider |-> p]
    /\ connected' = [connected EXCEPT ![p] = backendOk]
    /\ outcome' = [outcome EXCEPT ![p] = IF backendOk THEN "connected"
                                                       ELSE "connect failed"]
    /\ busySlots' = RemoveAt(busySlots, i)
    /\ UNCHANGED <<listResp, fbResp, pc, cursor, iterations, calls, result>>

\* disconnect(): no await before its assignments
Disconnect(p) ==
    /\ params' = [op |-> "disconnect", provider |-> p]
    /\ listResp' = [listResp EXCEPT ![p].client = FALSE,
                                    ![p].calendarsCache = <<>>]
    /\ connected' = [connected EXCEPT ![p] = FALSE]
    /\ outcome' = [outcome EXCEPT ![p] = "disconnected"]
    /\ UNCHANGED <<fbResp, pc, cursor, busySlots, iterations, calls, result>>

\* time passes
Tick ==
    /\ iterations < MaxNow
    /\ iterations' = iterations + 1
    /\ UNCHANGED <<connected, outcome, listResp, fbResp, pc, params, cursor,
                   busySlots, calls, result>>

\* the provider as constructed
InitLifecycle ==
    /\ connected = [p \in LifecycleProviders |-> FALSE]
    /\ outcome = [p \in LifecycleProviders |-> None]
    /\ listResp = [p \in LifecycleProviders |->
                     [client |-> FALSE, calendarsCache |-> <<>>,
                      cacheTimestamp |-> 0]]
    /\ fbResp = [p \in LifecycleProviders |-> <<"primary">>]
    /\ pc = "idle"
    /\ params = NoParams
    /\ cursor = 0
    /\ busySlots = <<>>
    /\ iterations = 0
    /\ calls = [p \in LifecycleProviders |-> None]
    /\ result = NoResult

NextLifecycle ==
    \/ \E p \in LifecycleProviders : ConnectCall(p)
    \/ \E p \in LifecycleProviders, i \in 1..MaxConnects, valid \in BOOLEAN :
          ConnectCredentials(p, i, valid)
    \/ \E p \in LifecycleProviders, i \in 1..MaxConnects, backendOk \in BOOLEAN :
          ConnectTested(p, i, backendOk)
    \/ \E p \in LifecycleProviders : Disconnect(p)
    \/ \E p \in LifecycleProviders, op \in DataOperations, backendOk \in BOOLEAN :
          Operation(p, op, backendOk)
    \/ Tick

SpecLifecycle == InitLifecycle /\ [][NextLifecycle]_vars

\* C29: a data operation started on a provider whose last connect failed, or
\* that was disconnected since its last successful connect, is rejected with
\* PROVIDER_NOT_CONFIGURED, sends no request to the backend and does not
\* return the cached calendars.
C29_NotConnectedNoData ==
    (/\ params # NoParams
     /\ params.op \in DataOperations
     /\ outcome[params.provider] \in {"connect failed", "disconnected"})
        => /\ result = Rejected(PROVIDER_NOT_CONFIGURED)
           /\ calls[params.provider] = None

\* listCalendars after a failed reconnect, the calendars still cached and fresh
C29_Witness ==
    /\ params # NoParams
    /\ params.op = "listCalendars"
    /\ outcome[params.provider] = "connect failed"
    /\ cacheIsFresh(listResp[params.provider], iterations)
    /\ listResp[params.provider].client
    /\ result = Rejected(PROVIDER_NOT_CONFIGURED)


-----------------------------------------------------------------------------
(* The serverless handler's getServices (api/mcp.ts).                        *)
(* In this specification the variables hold the process state:               *)
(*   fbResp      what loadConfig gives: whether it returns, and the provider *)
(*               configurations it returns                                   *)
(*   result      servicesPromise: <<>> for null, <<n>> for the promise of    *)
(*               the n-th initialization                                     *)
(*   busySlots   the initializations started, each with the index of the     *)
(*               provider whose connect it awaits and how its promise stands *)
(*   iterations  the number of times loadConfig was called                   *)
(*   connected   the global registry: the providers registered               *)
(*   calls[p]    the number of connect calls made for the provider p         *)
(*   pc[r]       the position of request r                                   *)
(*   params[r]   the promise request r got from getServices                  *)

\* concurrent requests to the handler
MaxRequests == 3

Requests == 1..MaxRequests

\* the provider configurations loadProviders may return
ConfiguredProviders == SubSeq(RegistrationOrder, 1, 3)

\* the configurations loadConfig may produce; valid = FALSE when it throws
Configs ==
    {[valid |-> v, providers |-> [i \in 1..Len(ConfiguredProviders) |->
                                     [id |-> ConfiguredProviders[i], enabled |-> en[i]]]] :
        v \in BOOLEAN, en \in [1..Len(ConfiguredProviders) -> BOOLEAN]}

\* mutant: the promise is never taken as memoized
isMemoizedNever(promise) == FALSE

\* getServices' test of servicesPromise
isMemoized(promise) == promise # <<>>

\* the index of the first enabled provider configuration from i on; one past
\* the end when the loop is over
RECURSIVE nextEnabled(_, _)
nextEnabled(providers, i) ==
    IF i > Len(providers) THEN i
    ELSE IF providers[i].enabled THEN i
    ELSE nextEnabled(providers, i + 1)

\* an initialization that has run its loop up to index i: it awaits the
\* connect of provider i, or has constructed the services and returned
initializationAt(config, i) ==
    [position |-> i,
     promise |-> IF i > Len(config.providers) THEN "fulfilled" ELSE "pending"]

\* the async function of getServices, run to its first await
startInitialization(config) ==
    IF ~config.valid
    THEN [position |-> 0, promise |-> "rejected"]
    ELSE initializationAt(config, nextEnabled(config.providers, 1))

\* the connect calls counted when an initialization reaches index i
withConnectCall(counts, config, i) ==
    IF i \in 1..Len(config.providers)
    THEN [counts EXCEPT ![config.providers[i].id] = @ + 1]
    ELSE counts

\* the registry after register(provider)
registered(registry, id) ==
    [p \in DOMAIN registry \cup {id} |-> TRUE]

\* a request calls getServices and awaits the promise it returns
GetServices(r) ==
    /\ pc[r] = "new"
    /\ IF isMemoized(result)
       THEN /\ params' = [params EXCEPT ![r] = result]
            /\ UNCHANGED <<result, busySlots, iterations, calls>>
       ELSE /\ busySlots' = Append(busySlots, startInitialization(fbResp))
            /\ iterations' = iterations + 1
            /\ calls' = withConnectCall(calls, fbResp,
                                        startInitialization(fbResp).position)
            /\ result' = <<Len(busySlots) + 1>>
            /\ params' = [params EXCEPT ![r] = <<Len(busySlots) + 1>>]
    /\ pc' = [pc EXCEPT ![r] = "awaiting"]
    /\ UNCHANGED <<connected, outcome, listResp, fbResp, cursor>>

\* the connect awaited by the n-th initialization settles: the provider is
\* registered or the failure is logged, and the loop goes on to the next await
\* or to the end of the function
ConnectSettled(n, ok) ==
    /\ n \in 1..Len(busySlots)
    /\ busySlots[n].promise = "pending"
    /\ LET i == busySlots[n].position
           next == nextEnabled(fbResp.providers, i + 1)
       IN /\ connected' = IF ok THEN registered(connected, fbResp.providers[i].id)
                                ELSE connected
          /\ busySlots' = [busySlots EXCEPT ![n] = initializationAt(fbResp, next)]
          /\ calls' = withConnectCall(calls, fbResp, next)
    /\ UNCHANGED <<outcome, listResp, fbResp, pc, params, cursor, iterations,
                   result>>

\* the promise a request awaits has settled and the request goes on: it uses
\* the services of that initialization, or fails with its error
Resume(r) ==
    /\ pc[r] = "awaiting"
    /\ busySlots[params[r][1]].promise # "pending"
    /\ pc' = [pc EXCEPT ![r] =
                IF busySlots[params[r][1]].promise = "fulfilled" THEN "using"
                                                                 ELSE "failed"]
    /\ UNCHANGED <<connected, outcome, listResp, fbResp, params, cursor,
                   busySlots, iterations, calls, result>>

\* a process just started
InitServerless ==
    /\ connected = [p \in {} |-> TRUE]
    /\ outcome = [p \in {} |-> "ok"]
    /\ listResp = [p \in {} |-> <<>>]
    /\ fbResp \in Configs
    /\ pc = [r \in Requests |-> "new"]
    /\ params = [r \in Requests |-> <<>>]
    /\ cursor = 0
    /\ busySlots = <<>>
    /\ iterations = 0
    /\ calls = [p \in {ConfiguredProviders[i] : i \in 1..Len(ConfiguredProviders)} |-> 0]
    /\ result = <<>>

NextServerless ==
    \/ \E r \in Requests : GetServices(r)
    \/ \E n \in Requests, ok \in BOOLEAN : ConnectSettled(n, ok)
    \/ \E r \in Requests : Resume(r)

SpecServerless == InitServerless /\ [][NextServerless]_vars

\* C30: under any interleaving of concurrent requests the initialization runs
\* at most once in the process (one loadConfig, at most one connect for each
\* provider), and every request awaits the promise of that one initialization
\* and goes on only when it has settled, with its result.
C30_InitializedOnce ==
    /\ iterations <= 1
    /\ Len(busySlots) <= 1
    /\ \A p \in DOMAIN calls : calls[p] <= 1
    /\ \A r \in Requests :
          /\ pc[r] # "new" => params[r] = <<1>>
          /\ pc[r] = "using" => busySlots[1].promise = "fulfilled"
          /\ pc[r] = "failed" => busySlots[1].promise = "rejected"

\* two requests await the initialization while it is in the middle of its loop
C30_Witness ==
    /\ iterations = 1
    /\ \E r1, r2 \in Requests : r1 # r2 /\ pc[r1] = "awaiting" /\ pc[r2] = "awaiting"
    /\ Len(busySlots) = 1
    /\ busySlots[1].promise = "pending"
    /\ busySlots[1].position > 1
    /\ DOMAIN connected # {}

=============================================================================
